---------------------------- MODULE Spec2Model ----------------------------
(***************************************************************************)
(* GUSD: a collateralized-debt-position stablecoin engine                  *)
(* (programs/gusd/src/lib.rs).  The model follows the instruction handlers *)
(* of the program line by line.  Integers: the program's u64 is modelled   *)
(* as 0..U64_MAX with a reduced U64_MAX (the model checker's integers are  *)
(* 32 bits wide); u128 intermediates are computed exactly by               *)
(* WideMulDivRem, which never forms a product.  Every other number is the  *)
(* program's own constant.                                                 *)
(*                                                                         *)
(* The ledger (system program, token program) is outside the program: it   *)
(* is modelled as accepting every request, and the requests are recorded.  *)
(***************************************************************************)
EXTENDS Integers, Sequences, FiniteSets, TLC

\* ------------------------------------------------------------------------
\* Program constants (lib.rs 13-35)
\* ------------------------------------------------------------------------
MIN_COLLATERAL_RATIO_BPS == 15000
LIQUIDATION_THRESHOLD_BPS == 12000
LIQUIDATION_PENALTY_BPS == 1000
BPS_DENOMINATOR == 10000
GUSD_DECIMALS == 6
GOR_DECIMALS == 9
MAX_PRICE_CHANGE_BPS == 2000
MIN_PRICE_UPDATE_INTERVAL_SECS == 1

\* ------------------------------------------------------------------------
\* Bounds of the model
\* ------------------------------------------------------------------------
\* largest value of the modelled u64 (2^30 - 1)
U64_MAX == 1073741823
\* number of accepted instructions in one behaviour (pause_protocol and
\* unpause_protocol, which only set the flag, are not counted)
MaxOps == 5
\* largest clock value
MaxTime == 1

\* a u128 quotient above WideCap is reported as WideCap: the program
\* compares such a quotient with a u64 or narrows it to u64, and the largest
\* quotient it computes with further is repay * 11000 / 10000 < WideCap
WideCap == U64_MAX + U64_MAX \div 2

\* Option<u64>::None
None == -1

\* Pubkey::default() and the signers of the model
NullKey == 0
Keys == {1, 2}

\* ------------------------------------------------------------------------
\* Checked arithmetic
\* ------------------------------------------------------------------------
checked_add(a, b) == IF a > U64_MAX - b THEN None ELSE a + b

checked_sub(a, b) == IF b > a THEN None ELSE a - b

checked_mul(a, b) == IF b # 0 /\ a > U64_MAX \div b THEN None ELSE a * b

checked_div(a, b) == IF b = 0 THEN None ELSE a \div b

Min(a, b) == IF a <= b THEN a ELSE b

Max(a, b) == IF a >= b THEN a ELSE b

SatAdd(x, y) == IF x > WideCap - y THEN WideCap ELSE x + y

\* 10u128.pow(n)
RECURSIVE Pow10(_)
Pow10(n) == IF n = 0 THEN 1 ELSE 10 * Pow10(n - 1)

\* (a as u128).checked_mul(b as u128) followed by checked_div(c), c > 0:
\* q = floor(a*b / c) (capped at WideCap), r = (a*b) mod c.  The u128
\* product of two u64 (or of a u64 and a constant below 2^64) cannot
\* overflow, so the multiplication has no failing branch.  Computed by
\* binary doubling on b so that no intermediate exceeds 2*c + a.
RECURSIVE WideMulDivRem(_, _, _)
WideMulDivRem(a, b, c) ==
    IF b = 0 THEN [q |-> 0, r |-> 0]
    ELSE LET h  == WideMulDivRem(a, b \div 2, c)
         IN  \* h is evaluated here, before it is used, so that the
             \* evaluation of the recursion stays shallow
             IF h.q < 0 THEN h ELSE
             LET d2 == h.r + h.r
                 dq == SatAdd(SatAdd(h.q, h.q), d2 \div c)
                 dr == d2 % c
                 s  == dr + (a % c)
             IN  IF b % 2 = 0 THEN [q |-> dq, r |-> dr]
                 ELSE [q |-> SatAdd(SatAdd(dq, a \div c), s \div c),
                       r |-> s % c]

\* (variant: the quotient is rounded up)
WideMulDiv_rounded_up(a, b, c) ==
    IF c = 0 THEN None
    ELSE LET d == IF a < b THEN WideMulDivRem(b, a, c)
                  ELSE WideMulDivRem(a, b, c)
         IN  IF d.r > 0 THEN SatAdd(d.q, 1) ELSE d.q

\* u128 checked_mul(b).checked_div(c): None when c = 0
WideMulDiv(a, b, c) ==
    IF c = 0 THEN None
    ELSE IF a < b THEN WideMulDivRem(b, a, c).q
    ELSE WideMulDivRem(a, b, c).q

\* ------------------------------------------------------------------------
\* calculate_usd_value (lib.rs 648-663)
\* ------------------------------------------------------------------------
\* (variant: a value above u64::MAX is narrowed to u64::MAX)
calculate_usd_value_saturating(gor_amount, gor_price_usd, gor_decimals) ==
    LET value == WideMulDiv(gor_amount, gor_price_usd, Pow10(gor_decimals))
    IN  IF value = None THEN None
        ELSE IF ~(value <= U64_MAX) THEN U64_MAX
        ELSE value

calculate_usd_value(gor_amount, gor_price_usd, gor_decimals) ==
    LET value == WideMulDiv(gor_amount, gor_price_usd, Pow10(gor_decimals))
    IN  IF value = None THEN None
        ELSE IF ~(value <= U64_MAX) THEN None
        ELSE value


\* u64::saturating_sub and i64::saturating_sub (timestamps of the model
\* are far from the i64 limits, WideCap stands for them)
saturating_sub(a, b) == IF b > a THEN 0 ELSE a - b

saturating_sub_i64(a, b) == Max(0 - WideCap, Min(WideCap, a - b))

\* ------------------------------------------------------------------------
\* State (lib.rs 998-1036)
\* ------------------------------------------------------------------------
VARIABLES
    protocol,   \* the ProtocolState account
    vaults,     \* owner key -> Vault account (NoVault when there is none)
    now,        \* Clock::get()?.unix_timestamp
    escrow,     \* owner key -> net lamports the program asked the ledger
                \* to move into the vault_collateral account
    issued,     \* net GUSD the program asked the ledger to issue
    nops,       \* number of successful instructions so far
    last        \* the last instruction: name, signer, argument, outcome

vars == <<protocol, vaults, now, escrow, issued, nops, last>>

\* the protocol_state account before `initialize` created it
NoProtocol ==
    [initialized |-> FALSE, admin |-> NullKey, gor_price_usd |-> 0,
     total_collateral |-> 0, total_debt |-> 0, is_paused |-> FALSE,
     last_price_update_ts |-> 0]

\* no vault account at this address
NoVault == [owner |-> NullKey, collateral_amount |-> 0, debt_amount |-> 0]

VaultExists(o) == vaults[o].owner # NullKey

\* outcome of a handler: the error (or "Ok"), the in-memory accounts when it
\* returned, the number of ledger requests it had issued, the net amounts
\* those requests move (collateral into escrow, GUSD issued) and two
\* reported numbers (event fields)
Res(err, p, v, reqs, dcoll, dstable, r1, r2) ==
    [err |-> err, protocol |-> p, vault |-> v, reqs |-> reqs,
     dcoll |-> dcoll, dstable |-> dstable, r1 |-> r1, r2 |-> r2]

Call(op, who, key, arg, r) ==
    [op |-> op, who |-> who, key |-> key, arg |-> arg, err |-> r.err,
     reqs |-> r.reqs, r1 |-> r.r1, r2 |-> r.r2]

\* Anchor's instruction dispatch: the accounts are written back (exit) only
\* when the handler returns Ok; an Err leaves every account as it was and
\* the transaction's ledger requests are rolled back with it.
\* (variant: the accounts are written back whatever the handler returns)
Persist_always(r, old, new) == new

Persist(r, old, new) == IF r.err = "Ok" THEN new ELSE old

\* ------------------------------------------------------------------------
\* initialize (lib.rs 54-74)
\* ------------------------------------------------------------------------
\* (variant: without the price check of line 56)
initialize_any_price(p, admin, initial_gor_price_usd, ts) ==
    Res("Ok",
        [initialized |-> TRUE, admin |-> admin,
         gor_price_usd |-> initial_gor_price_usd,
         total_collateral |-> 0, total_debt |-> 0,
         is_paused |-> FALSE, last_price_update_ts |-> ts],
        NoVault, 0, 0, 0, 0, 0)

initialize(p, admin, initial_gor_price_usd, ts) ==
    IF ~(initial_gor_price_usd > 0)
    THEN Res("InvalidPrice", p, NoVault, 0, 0, 0, 0, 0)
    ELSE Res("Ok",
             [initialized |-> TRUE, admin |-> admin,
              gor_price_usd |-> initial_gor_price_usd,
              total_collateral |-> 0, total_debt |-> 0,
              is_paused |-> FALSE, last_price_update_ts |-> ts],
             NoVault, 0, 0, 0, 0, 0)

\* ------------------------------------------------------------------------
\* update_price (lib.rs 79-127)
\* ------------------------------------------------------------------------
\* (variant: floor division, without the + (BPS - 1) of line 104)
max_change_u128_floor(old_price) ==
    LET m == WideMulDivRem(old_price, MAX_PRICE_CHANGE_BPS, BPS_DENOMINATOR)
    IN  Max(m.q, 1)

\* lines 101-108: ((old * MAX + (BPS - 1)) / BPS).max(1) in u128
max_change_u128(old_price) ==
    LET m == WideMulDivRem(old_price, MAX_PRICE_CHANGE_BPS, BPS_DENOMINATOR)
    IN  Max(SatAdd(m.q, (m.r + (BPS_DENOMINATOR - 1)) \div BPS_DENOMINATOR), 1)

\* lines 93-126: the change limit and the update (r1, r2: the PriceUpdated
\* event)
update_price_limit(p, new_gor_price_usd, ts) ==
    LET old_price == p.gor_price_usd
        price_change ==
            IF new_gor_price_usd > old_price
            THEN saturating_sub(new_gor_price_usd, old_price)
            ELSE saturating_sub(old_price, new_gor_price_usd)
        max_change == max_change_u128(old_price)
    IN  IF ~(max_change <= U64_MAX)
        THEN Res("MathOverflow", p, NoVault, 0, 0, 0, 0, 0)
        ELSE IF ~(price_change <= max_change)
        THEN Res("PriceChangeExceedsLimit", p, NoVault, 0, 0, 0, 0, 0)
        ELSE Res("Ok",
                 [p EXCEPT !.gor_price_usd = new_gor_price_usd,
                           !.last_price_update_ts = ts],
                 NoVault, 0, 0, 0, old_price, new_gor_price_usd)

\* (variant: without the minimum update interval of lines 86-91)
update_price_no_interval(p, new_gor_price_usd, ts) ==
    IF ~(new_gor_price_usd > 0)
    THEN Res("InvalidPrice", p, NoVault, 0, 0, 0, 0, 0)
    ELSE update_price_limit(p, new_gor_price_usd, ts)

\* lines 79-91: the price and interval checks, in the order of the code
update_price(p, new_gor_price_usd, ts) ==
    IF ~(new_gor_price_usd > 0)
    THEN Res("InvalidPrice", p, NoVault, 0, 0, 0, 0, 0)
    ELSE
    LET elapsed == saturating_sub_i64(ts, p.last_price_update_ts)
    IN  IF ~(elapsed >= MIN_PRICE_UPDATE_INTERVAL_SECS)
        THEN Res("PriceUpdateTooFrequent", p, NoVault, 0, 0, 0, 0, 0)
        ELSE update_price_limit(p, new_gor_price_usd, ts)

\* pause_protocol / unpause_protocol (lib.rs 130-141)
pause_protocol(p) ==
    Res("Ok", [p EXCEPT !.is_paused = TRUE], NoVault, 0, 0, 0, 0, 0)

unpause_protocol(p) ==
    Res("Ok", [p EXCEPT !.is_paused = FALSE], NoVault, 0, 0, 0, 0, 0)

\* transfer_admin (lib.rs 144-154)
transfer_admin(p, new_admin) ==
    IF ~(new_admin # NullKey)
    THEN Res("InvalidAmount", p, NoVault, 0, 0, 0, 0, 0)
    ELSE Res("Ok", [p EXCEPT !.admin = new_admin], NoVault, 0, 0, 0, 0, 0)

\* create_vault (lib.rs 158-176)
create_vault(owner) ==
    Res("Ok", NoProtocol,
        [owner |-> owner, collateral_amount |-> 0, debt_amount |-> 0],
        0, 0, 0, 0, 0)

\* ------------------------------------------------------------------------
\* deposit_collateral (lib.rs 179-213)
\* ------------------------------------------------------------------------
\* (variant: the protocol total of lines 199-201 is not updated)
deposit_collateral_apply_no_total(p, v, amount) ==
    LET c  == checked_add(v.collateral_amount, amount)
        v1 == [v EXCEPT !.collateral_amount = c]
    IN  IF c = None
        THEN Res("MathOverflow", p, v, 1, amount, 0, 0, 0)
        ELSE Res("Ok", p, v1, 1, amount, 0, amount, v1.collateral_amount)

\* (variant: the transfer is requested and the total raised, the vault's
\* balance is not)
deposit_collateral_apply_uncredited(p, v, amount) ==
    LET t  == checked_add(p.total_collateral, amount)
        p1 == [p EXCEPT !.total_collateral = t]
    IN  IF t = None
        THEN Res("MathOverflow", p, v, 1, amount, 0, 0, 0)
        ELSE Res("Ok", p1, v, 1, amount, 0, amount, v.collateral_amount)

\* lines 182-212: the transfer request, then the balance and the total
deposit_collateral_apply(p, v, amount) ==
    \* 183-191: system_program::transfer(owner -> vault_collateral, amount)
    LET c  == checked_add(v.collateral_amount, amount)
        v1 == [v EXCEPT !.collateral_amount = c]
        t  == checked_add(p.total_collateral, amount)
        p1 == [p EXCEPT !.total_collateral = t]
    IN  IF c = None
        THEN Res("MathOverflow", p, v, 1, amount, 0, 0, 0)
        ELSE IF t = None
        THEN Res("MathOverflow", p, v1, 1, amount, 0, 0, 0)
        ELSE Res("Ok", p1, v1, 1, amount, 0, amount, v1.collateral_amount)

\* (variant: without the amount check of line 180)
deposit_collateral_any_amount(p, v, amount) ==
    deposit_collateral_apply(p, v, amount)

deposit_collateral(p, v, amount) ==
    IF ~(amount > 0)
    THEN Res("InvalidAmount", p, v, 0, 0, 0, 0, 0)
    ELSE deposit_collateral_apply(p, v, amount)

\* (variant: the liquidation threshold in the place of the minimum ratio)
required_collateral_threshold(debt) ==
    LET m == checked_mul(debt, LIQUIDATION_THRESHOLD_BPS)
    IN  IF m = None THEN None ELSE checked_div(m, BPS_DENOMINATOR)

\* (variant: the required collateral is the debt itself, a ratio of 100%)
required_collateral_at_par(debt) ==
    LET m == checked_mul(debt, BPS_DENOMINATOR)
    IN  IF m = None THEN None ELSE checked_div(m, BPS_DENOMINATOR)

\* lines 235-239 and 365-369: debt * MIN_COLLATERAL_RATIO_BPS / BPS in u64
required_collateral(debt) ==
    LET m == checked_mul(debt, MIN_COLLATERAL_RATIO_BPS)
    IN  IF m = None THEN None ELSE checked_div(m, BPS_DENOMINATOR)

\* ------------------------------------------------------------------------
\* mint_gusd (lib.rs 216-293)
\* ------------------------------------------------------------------------
\* (variant: the collateral of the whole protocol backs the debt of a vault)
mint_gusd_apply_pooled(p, v, amount) ==
    LET new_debt == checked_add(v.debt_amount, amount)
        collateral_value_usd ==
            calculate_usd_value(p.total_collateral, p.gor_price_usd,
                                GOR_DECIMALS)
        required == required_collateral(new_debt)
        \* 246-263: token_interface::mint_to(user_gusd_account, amount)
        v1 == [v EXCEPT !.debt_amount = new_debt]
        t  == checked_add(p.total_debt, amount)
        p1 == [p EXCEPT !.total_debt = t]
        rm == checked_mul(collateral_value_usd, BPS_DENOMINATOR)
        collateral_ratio_bps == checked_div(rm, new_debt)
    IN  IF new_debt = None
        THEN Res("MathOverflow", p, v, 0, 0, 0, 0, 0)
        ELSE IF collateral_value_usd = None
        THEN Res("MathOverflow", p, v, 0, 0, 0, 0, 0)
        ELSE IF required = None
        THEN Res("MathOverflow", p, v, 0, 0, 0, 0, 0)
        ELSE IF ~(collateral_value_usd >= required)
        THEN Res("InsufficientCollateral", p, v, 0, 0, 0, 0, 0)
        ELSE IF t = None
        THEN Res("MathOverflow", p, v1, 1, 0, amount, 0, 0)
        ELSE IF rm = None
        THEN Res("MathOverflow", p1, v1, 1, 0, amount, 0, 0)
        ELSE IF collateral_ratio_bps = None
        THEN Res("MathOverflow", p1, v1, 1, 0, amount, 0, 0)
        ELSE Res("Ok", p1, v1, 1, 0, amount, amount, collateral_ratio_bps)

\* lines 221-292: the collateral check, the mint request, debt and total,
\* the reported ratio (r2)
mint_gusd_apply(p, v, amount) ==
    LET new_debt == checked_add(v.debt_amount, amount)
        collateral_value_usd ==
            calculate_usd_value(v.collateral_amount, p.gor_price_usd,
                                GOR_DECIMALS)
        required == required_collateral(new_debt)
        \* 246-263: token_interface::mint_to(user_gusd_account, amount)
        v1 == [v EXCEPT !.debt_amount = new_debt]
        t  == checked_add(p.total_debt, amount)
        p1 == [p EXCEPT !.total_debt = t]
        rm == checked_mul(collateral_value_usd, BPS_DENOMINATOR)
        collateral_ratio_bps == checked_div(rm, new_debt)
    IN  IF new_debt = None
        THEN Res("MathOverflow", p, v, 0, 0, 0, 0, 0)
        ELSE IF collateral_value_usd = None
        THEN Res("MathOverflow", p, v, 0, 0, 0, 0, 0)
        ELSE IF required = None
        THEN Res("MathOverflow", p, v, 0, 0, 0, 0, 0)
        ELSE IF ~(collateral_value_usd >= required)
        THEN Res("InsufficientCollateral", p, v, 0, 0, 0, 0, 0)
        ELSE IF t = None
        THEN Res("MathOverflow", p, v1, 1, 0, amount, 0, 0)
        ELSE IF rm = None
        THEN Res("MathOverflow", p1, v1, 1, 0, amount, 0, 0)
        ELSE IF collateral_ratio_bps = None
        THEN Res("MathOverflow", p1, v1, 1, 0, amount, 0, 0)
        ELSE Res("Ok", p1, v1, 1, 0, amount, amount, collateral_ratio_bps)

\* (variant: without the pause check of line 218)
mint_gusd_no_pause(p, v, amount) ==
    IF ~(amount > 0)
    THEN Res("InvalidAmount", p, v, 0, 0, 0, 0, 0)
    ELSE mint_gusd_apply(p, v, amount)

\* lines 216-219: the pause and amount checks, in the order of the code
mint_gusd(p, v, amount) ==
    IF ~(~p.is_paused)
    THEN Res("ProtocolPaused", p, v, 0, 0, 0, 0, 0)
    ELSE IF ~(amount > 0)
    THEN Res("InvalidAmount", p, v, 0, 0, 0, 0, 0)
    ELSE mint_gusd_apply(p, v, amount)

\* ------------------------------------------------------------------------
\* repay_gusd (lib.rs 296-336)
\* ------------------------------------------------------------------------
\* (variant: the amount offered is burned, without the cap of line 302)
repay_gusd_apply_uncapped(p, v, amount) ==
    LET repay_amount == amount
        d  == checked_sub(v.debt_amount, repay_amount)
        v1 == [v EXCEPT !.debt_amount = d]
        t  == checked_sub(p.total_debt, repay_amount)
        p1 == [p EXCEPT !.total_debt = t]
    IN  IF d = None
        THEN Res("MathOverflow", p, v, 1, 0, 0 - repay_amount, 0, 0)
        ELSE IF t = None
        THEN Res("MathOverflow", p, v1, 1, 0, 0 - repay_amount, 0, 0)
        ELSE Res("Ok", p1, v1, 1, 0, 0 - repay_amount,
                 repay_amount, v1.debt_amount)

\* (variant: the protocol total of lines 322-324 is not decremented)
repay_gusd_apply_no_total(p, v, amount) ==
    LET repay_amount == Min(amount, v.debt_amount)
        d  == checked_sub(v.debt_amount, repay_amount)
        v1 == [v EXCEPT !.debt_amount = d]
    IN  IF d = None
        THEN Res("MathOverflow", p, v, 1, 0, 0 - repay_amount, 0, 0)
        ELSE Res("Ok", p, v1, 1, 0, 0 - repay_amount,
                 repay_amount, v1.debt_amount)

\* lines 299-335: the burn request, then debt and total
repay_gusd_apply(p, v, amount) ==
    LET repay_amount == Min(amount, v.debt_amount)
        \* 304-315: token_interface::burn(user_gusd_account, repay_amount)
        d  == checked_sub(v.debt_amount, repay_amount)
        v1 == [v EXCEPT !.debt_amount = d]
        t  == checked_sub(p.total_debt, repay_amount)
        p1 == [p EXCEPT !.total_debt = t]
    IN  IF d = None
        THEN Res("MathOverflow", p, v, 1, 0, 0 - repay_amount, 0, 0)
        ELSE IF t = None
        THEN Res("MathOverflow", p, v1, 1, 0, 0 - repay_amount, 0, 0)
        ELSE Res("Ok", p1, v1, 1, 0, 0 - repay_amount,
                 repay_amount, v1.debt_amount)

repay_gusd(p, v, amount) ==
    IF ~(amount > 0)
    THEN Res("InvalidAmount", p, v, 0, 0, 0, 0, 0)
    ELSE repay_gusd_apply(p, v, amount)

\* ------------------------------------------------------------------------
\* withdraw_collateral (lib.rs 340-416)
\* ------------------------------------------------------------------------
\* (variant: without the ratio check of lines 357-375)
withdraw_collateral_no_ratio(p, v, amount) ==
    IF ~(~p.is_paused)
    THEN Res("ProtocolPaused", p, v, 0, 0, 0, 0, 0)
    ELSE IF ~(amount > 0)
    THEN Res("InvalidAmount", p, v, 0, 0, 0, 0, 0)
    ELSE IF ~(amount <= v.collateral_amount)
    THEN Res("InsufficientCollateral", p, v, 0, 0, 0, 0, 0)
    ELSE
    LET remaining_collateral == checked_sub(v.collateral_amount, amount)
        v1 == [v EXCEPT !.collateral_amount = remaining_collateral]
        t  == checked_sub(p.total_collateral, amount)
        p1 == [p EXCEPT !.total_collateral = t]
    IN  IF remaining_collateral = None
        THEN Res("MathOverflow", p, v, 0, 0, 0, 0, 0)
        ELSE IF t = None
        THEN Res("MathOverflow", p, v1, 1, 0 - amount, 0, 0, 0)
        ELSE Res("Ok", p1, v1, 1, 0 - amount, 0, amount,
                 v1.collateral_amount)

withdraw_collateral(p, v, amount) ==
    IF ~(~p.is_paused)
    THEN Res("ProtocolPaused", p, v, 0, 0, 0, 0, 0)
    ELSE IF ~(amount > 0)
    THEN Res("InvalidAmount", p, v, 0, 0, 0, 0, 0)
    ELSE IF ~(amount <= v.collateral_amount)
    THEN Res("InsufficientCollateral", p, v, 0, 0, 0, 0, 0)
    ELSE
    LET remaining_collateral == checked_sub(v.collateral_amount, amount)
        remaining_value_usd ==
            calculate_usd_value(remaining_collateral, p.gor_price_usd,
                                GOR_DECIMALS)
        required == required_collateral(v.debt_amount)
        \* 377-396: system_program::transfer(vault_collateral -> owner)
        v1 == [v EXCEPT !.collateral_amount = remaining_collateral]
        t  == checked_sub(p.total_collateral, amount)
        p1 == [p EXCEPT !.total_collateral = t]
    IN  IF remaining_collateral = None
        THEN Res("MathOverflow", p, v, 0, 0, 0, 0, 0)
        ELSE IF v.debt_amount > 0 /\ remaining_value_usd = None
        THEN Res("MathOverflow", p, v, 0, 0, 0, 0, 0)
        ELSE IF v.debt_amount > 0 /\ required = None
        THEN Res("MathOverflow", p, v, 0, 0, 0, 0, 0)
        ELSE IF v.debt_amount > 0 /\ ~(remaining_value_usd >= required)
        THEN Res("WouldUndercollateralize", p, v, 0, 0, 0, 0, 0)
        ELSE IF t = None
        THEN Res("MathOverflow", p, v1, 1, 0 - amount, 0, 0, 0)
        ELSE Res("Ok", p1, v1, 1, 0 - amount, 0, amount,
                 v1.collateral_amount)

\* ------------------------------------------------------------------------
\* close_vault (lib.rs 420-452); balance: lamports of the vault_collateral
\* account.  The vault account itself is closed by `close = owner` (909).
\* ------------------------------------------------------------------------
\* (variant: without the collateral check of line 422)
close_vault_debt_only(v, balance) ==
    IF ~(v.debt_amount = 0)
    THEN Res("VaultNotEmpty", NoProtocol, v, 0, 0, 0, 0, 0)
    ELSE IF balance > 0
    THEN Res("Ok", NoProtocol, NoVault, 1, 0 - balance, 0, balance, 0)
    ELSE Res("Ok", NoProtocol, NoVault, 0, 0, 0, 0, 0)

close_vault(v, balance) ==
    IF ~(v.debt_amount = 0)
    THEN Res("VaultNotEmpty", NoProtocol, v, 0, 0, 0, 0, 0)
    ELSE IF ~(v.collateral_amount = 0)
    THEN Res("VaultNotEmpty", NoProtocol, v, 0, 0, 0, 0, 0)
    ELSE IF balance > 0
    THEN Res("Ok", NoProtocol, NoVault, 1, 0 - balance, 0, balance, 0)
    ELSE Res("Ok", NoProtocol, NoVault, 0, 0, 0, 0, 0)

\* ------------------------------------------------------------------------
\* liquidate (lib.rs 457-595)
\* ------------------------------------------------------------------------
\* (variant: the repaid amount is not capped at the debt (line 499), the
\* seizure is not checked against the collateral (lines 535-538) and the
\* balances are decremented with saturating subtraction)
liquidate_apply_uncapped(p, v) ==
    LET price == p.gor_price_usd
        vault_collateral_amount == v.collateral_amount
        vault_debt_amount == v.debt_amount
        collateral_value_usd ==
            calculate_usd_value(vault_collateral_amount, price, GOR_DECIMALS)
        collateral_ratio_bps ==
            WideMulDiv(collateral_value_usd, BPS_DENOMINATOR,
                       vault_debt_amount)
        bonus_denominator == BPS_DENOMINATOR + LIQUIDATION_PENALTY_BPS
        max_repay_u128 ==
            WideMulDiv(collateral_value_usd, BPS_DENOMINATOR,
                       bonus_denominator)
        repay_amount == max_repay_u128
        repay_with_bonus_u128 ==
            WideMulDiv(repay_amount, bonus_denominator, BPS_DENOMINATOR)
        collateral_to_liquidator ==
            WideMulDiv(repay_with_bonus_u128, Pow10(GOR_DECIMALS), price)
        p2 == [p EXCEPT !.total_collateral =
                            saturating_sub(@, collateral_to_liquidator),
                        !.total_debt = saturating_sub(@, repay_amount)]
        v2 == [v EXCEPT !.collateral_amount =
                            saturating_sub(@, collateral_to_liquidator),
                        !.debt_amount = saturating_sub(@, repay_amount)]
    IN  IF ~(vault_debt_amount > 0)
        THEN Res("NoDebtToLiquidate", p, v, 0, 0, 0, 0, 0)
        ELSE IF collateral_value_usd = None
        THEN Res("MathOverflow", p, v, 0, 0, 0, 0, 0)
        ELSE IF ~(collateral_ratio_bps < LIQUIDATION_THRESHOLD_BPS)
        THEN Res("VaultNotLiquidatable", p, v, 0, 0, 0, 0, 0)
        ELSE IF ~(repay_amount > 0)
        THEN Res("LiquidationNotProfitable", p, v, 0, 0, 0, 0, 0)
        ELSE IF ~(repay_amount <= U64_MAX)
        THEN Res("MathOverflow", p, v, 0, 0, 0, 0, 0)
        ELSE IF ~(collateral_to_liquidator <= U64_MAX)
        THEN Res("MathOverflow", p, v, 1, 0, 0 - repay_amount,
                 repay_amount, 0)
        ELSE Res("Ok", p2, v2, 2, 0 - collateral_to_liquidator,
                 0 - repay_amount, repay_amount, collateral_to_liquidator)

\* (variant: without the eligibility check of lines 484-487)
liquidate_apply_no_threshold(p, v) ==
    LET price == p.gor_price_usd
        vault_collateral_amount == v.collateral_amount
        vault_debt_amount == v.debt_amount
        collateral_value_usd ==
            calculate_usd_value(vault_collateral_amount, price, GOR_DECIMALS)
        collateral_ratio_bps ==
            WideMulDiv(collateral_value_usd, BPS_DENOMINATOR,
                       vault_debt_amount)
        bonus_denominator == BPS_DENOMINATOR + LIQUIDATION_PENALTY_BPS
        max_repay_u128 ==
            WideMulDiv(collateral_value_usd, BPS_DENOMINATOR,
                       bonus_denominator)
        repay_u128 == Min(vault_debt_amount, max_repay_u128)
        repay_amount == repay_u128
        \* 504-515: token_interface::burn(liquidator_gusd_account, repay)
        repay_with_bonus_u128 ==
            WideMulDiv(repay_amount, bonus_denominator, BPS_DENOMINATOR)
        collateral_to_liquidator_u128 ==
            WideMulDiv(repay_with_bonus_u128, Pow10(GOR_DECIMALS), price)
        collateral_to_liquidator == collateral_to_liquidator_u128
        \* 540-558: system_program::transfer(vault_collateral -> liquidator)
        tc == checked_sub(p.total_collateral, collateral_to_liquidator)
        p1 == [p EXCEPT !.total_collateral = tc]
        td == checked_sub(p1.total_debt, repay_amount)
        p2 == [p1 EXCEPT !.total_debt = td]
        vc == checked_sub(v.collateral_amount, collateral_to_liquidator)
        v1 == [v EXCEPT !.collateral_amount = vc]
        vd == checked_sub(v1.debt_amount, repay_amount)
        v2 == [v1 EXCEPT !.debt_amount = vd]
    IN  IF ~(vault_debt_amount > 0)
        THEN Res("NoDebtToLiquidate", p, v, 0, 0, 0, 0, 0)
        ELSE IF collateral_value_usd = None
        THEN Res("MathOverflow", p, v, 0, 0, 0, 0, 0)
        ELSE IF collateral_ratio_bps = None
        THEN Res("MathOverflow", p, v, 0, 0, 0, 0, 0)
        ELSE IF max_repay_u128 = None
        THEN Res("MathOverflow", p, v, 0, 0, 0, 0, 0)
        ELSE IF ~(repay_u128 > 0)
        THEN Res("LiquidationNotProfitable", p, v, 0, 0, 0, 0, 0)
        ELSE IF ~(repay_u128 <= U64_MAX)
        THEN Res("MathOverflow", p, v, 0, 0, 0, 0, 0)
        ELSE IF repay_with_bonus_u128 = None
        THEN Res("MathOverflow", p, v, 1, 0, 0 - repay_amount,
                 repay_amount, 0)
        ELSE IF collateral_to_liquidator_u128 = None
        THEN Res("MathOverflow", p, v, 1, 0, 0 - repay_amount,
                 repay_amount, 0)
        ELSE IF ~(collateral_to_liquidator_u128 <= U64_MAX)
        THEN Res("MathOverflow", p, v, 1, 0, 0 - repay_amount,
                 repay_amount, 0)
        ELSE IF ~(collateral_to_liquidator <= vault_collateral_amount)
        THEN Res("MathOverflow", p, v, 1, 0, 0 - repay_amount,
                 repay_amount, collateral_to_liquidator)
        ELSE IF tc = None
        THEN Res("MathOverflow", p, v, 2, 0 - collateral_to_liquidator,
                 0 - repay_amount, repay_amount, collateral_to_liquidator)
        ELSE IF td = None
        THEN Res("MathOverflow", p1, v, 2, 0 - collateral_to_liquidator,
                 0 - repay_amount, repay_amount, collateral_to_liquidator)
        ELSE IF vc = None
        THEN Res("MathOverflow", p2, v, 2, 0 - collateral_to_liquidator,
                 0 - repay_amount, repay_amount, collateral_to_liquidator)
        ELSE IF vd = None
        THEN Res("MathOverflow", p2, v1, 2, 0 - collateral_to_liquidator,
                 0 - repay_amount, repay_amount, collateral_to_liquidator)
        ELSE Res("Ok", p2, v2, 2, 0 - collateral_to_liquidator,
                 0 - repay_amount, repay_amount, collateral_to_liquidator)

\* (variant: the repaid amount with its bonus is rounded up)
liquidate_apply_bonus_rounded_up(p, v) ==
    LET price == p.gor_price_usd
        vault_collateral_amount == v.collateral_amount
        vault_debt_amount == v.debt_amount
        collateral_value_usd ==
            calculate_usd_value(vault_collateral_amount, price, GOR_DECIMALS)
        collateral_ratio_bps ==
            WideMulDiv(collateral_value_usd, BPS_DENOMINATOR,
                       vault_debt_amount)
        bonus_denominator == BPS_DENOMINATOR + LIQUIDATION_PENALTY_BPS
        max_repay_u128 ==
            WideMulDiv(collateral_value_usd, BPS_DENOMINATOR,
                       bonus_denominator)
        repay_u128 == Min(vault_debt_amount, max_repay_u128)
        repay_amount == repay_u128
        \* 504-515: token_interface::burn(liquidator_gusd_account, repay)
        repay_with_bonus_u128 ==
            WideMulDiv_rounded_up(repay_amount, bonus_denominator,
                                  BPS_DENOMINATOR)
        collateral_to_liquidator_u128 ==
            WideMulDiv(repay_with_bonus_u128, Pow10(GOR_DECIMALS), price)
        collateral_to_liquidator == collateral_to_liquidator_u128
        \* 540-558: system_program::transfer(vault_collateral -> liquidator)
        tc == checked_sub(p.total_collateral, collateral_to_liquidator)
        p1 == [p EXCEPT !.total_collateral = tc]
        td == checked_sub(p1.total_debt, repay_amount)
        p2 == [p1 EXCEPT !.total_debt = td]
        vc == checked_sub(v.collateral_amount, collateral_to_liquidator)
        v1 == [v EXCEPT !.collateral_amount = vc]
        vd == checked_sub(v1.debt_amount, repay_amount)
        v2 == [v1 EXCEPT !.debt_amount = vd]
    IN  IF ~(vault_debt_amount > 0)
        THEN Res("NoDebtToLiquidate", p, v, 0, 0, 0, 0, 0)
        ELSE IF collateral_value_usd = None
        THEN Res("MathOverflow", p, v, 0, 0, 0, 0, 0)
        ELSE IF collateral_ratio_bps = None
        THEN Res("MathOverflow", p, v, 0, 0, 0, 0, 0)
        ELSE IF ~(collateral_ratio_bps < LIQUIDATION_THRESHOLD_BPS)
        THEN Res("VaultNotLiquidatable", p, v, 0, 0, 0, 0, 0)
        ELSE IF max_repay_u128 = None
        THEN Res("MathOverflow", p, v, 0, 0, 0, 0, 0)
        ELSE IF ~(repay_u128 > 0)
        THEN Res("LiquidationNotProfitable", p, v, 0, 0, 0, 0, 0)
        ELSE IF ~(repay_u128 <= U64_MAX)
        THEN Res("MathOverflow", p, v, 0, 0, 0, 0, 0)
        ELSE IF repay_with_bonus_u128 = None
        THEN Res("MathOverflow", p, v, 1, 0, 0 - repay_amount,
                 repay_amount, 0)
        ELSE IF collateral_to_liquidator_u128 = None
        THEN Res("MathOverflow", p, v, 1, 0, 0 - repay_amount,
                 repay_amount, 0)
        ELSE IF ~(collateral_to_liquidator_u128 <= U64_MAX)
        THEN Res("MathOverflow", p, v, 1, 0, 0 - repay_amount,
                 repay_amount, 0)
        ELSE IF ~(collateral_to_liquidator <= vault_collateral_amount)
        THEN Res("MathOverflow", p, v, 1, 0, 0 - repay_amount,
                 repay_amount, collateral_to_liquidator)
        ELSE IF tc = None
        THEN Res("MathOverflow", p, v, 2, 0 - collateral_to_liquidator,
                 0 - repay_amount, repay_amount, collateral_to_liquidator)
        ELSE IF td = None
        THEN Res("MathOverflow", p1, v, 2, 0 - collateral_to_liquidator,
                 0 - repay_amount, repay_amount, collateral_to_liquidator)
        ELSE IF vc = None
        THEN Res("MathOverflow", p2, v, 2, 0 - collateral_to_liquidator,
                 0 - repay_amount, repay_amount, collateral_to_liquidator)
        ELSE IF vd = None
        THEN Res("MathOverflow", p2, v1, 2, 0 - collateral_to_liquidator,
                 0 - repay_amount, repay_amount, collateral_to_liquidator)
        ELSE Res("Ok", p2, v2, 2, 0 - collateral_to_liquidator,
                 0 - repay_amount, repay_amount, collateral_to_liquidator)

\* (variant: the repaid amount is limited by the collateral value, without
\* room for the bonus)
liquidate_apply_repay_to_value(p, v) ==
    LET price == p.gor_price_usd
        vault_collateral_amount == v.collateral_amount
        vault_debt_amount == v.debt_amount
        collateral_value_usd ==
            calculate_usd_value(vault_collateral_amount, price, GOR_DECIMALS)
        collateral_ratio_bps ==
            WideMulDiv(collateral_value_usd, BPS_DENOMINATOR,
                       vault_debt_amount)
        bonus_denominator == BPS_DENOMINATOR + LIQUIDATION_PENALTY_BPS
        max_repay_u128 == collateral_value_usd
        repay_u128 == Min(vault_debt_amount, max_repay_u128)
        repay_amount == repay_u128
        \* 504-515: token_interface::burn(liquidator_gusd_account, repay)
        repay_with_bonus_u128 ==
            WideMulDiv(repay_amount, bonus_denominator, BPS_DENOMINATOR)
        collateral_to_liquidator_u128 ==
            WideMulDiv(repay_with_bonus_u128, Pow10(GOR_DECIMALS), price)
        collateral_to_liquidator == collateral_to_liquidator_u128
        \* 540-558: system_program::transfer(vault_collateral -> liquidator)
        tc == checked_sub(p.total_collateral, collateral_to_liquidator)
        p1 == [p EXCEPT !.total_collateral = tc]
        td == checked_sub(p1.total_debt, repay_amount)
        p2 == [p1 EXCEPT !.total_debt = td]
        vc == checked_sub(v.collateral_amount, collateral_to_liquidator)
        v1 == [v EXCEPT !.collateral_amount = vc]
        vd == checked_sub(v1.debt_amount, repay_amount)
        v2 == [v1 EXCEPT !.debt_amount = vd]
    IN  IF ~(vault_debt_amount > 0)
        THEN Res("NoDebtToLiquidate", p, v, 0, 0, 0, 0, 0)
        ELSE IF collateral_value_usd = None
        THEN Res("MathOverflow", p, v, 0, 0, 0, 0, 0)
        ELSE IF collateral_ratio_bps = None
        THEN Res("MathOverflow", p, v, 0, 0, 0, 0, 0)
        ELSE IF ~(collateral_ratio_bps < LIQUIDATION_THRESHOLD_BPS)
        THEN Res("VaultNotLiquidatable", p, v, 0, 0, 0, 0, 0)
        ELSE IF max_repay_u128 = None
        THEN Res("MathOverflow", p, v, 0, 0, 0, 0, 0)
        ELSE IF ~(repay_u128 > 0)
        THEN Res("LiquidationNotProfitable", p, v, 0, 0, 0, 0, 0)
        ELSE IF ~(repay_u128 <= U64_MAX)
        THEN Res("MathOverflow", p, v, 0, 0, 0, 0, 0)
        ELSE IF repay_with_bonus_u128 = None
        THEN Res("MathOverflow", p, v, 1, 0, 0 - repay_amount,
                 repay_amount, 0)
        ELSE IF collateral_to_liquidator_u128 = None
        THEN Res("MathOverflow", p, v, 1, 0, 0 - repay_amount,
                 repay_amount, 0)
        ELSE IF ~(collateral_to_liquidator_u128 <= U64_MAX)
        THEN Res("MathOverflow", p, v, 1, 0, 0 - repay_amount,
                 repay_amount, 0)
        ELSE IF ~(collateral_to_liquidator <= vault_collateral_amount)
        THEN Res("MathOverflow", p, v, 1, 0, 0 - repay_amount,
                 repay_amount, collateral_to_liquidator)
        ELSE IF tc = None
        THEN Res("MathOverflow", p, v, 2, 0 - collateral_to_liquidator,
                 0 - repay_amount, repay_amount, collateral_to_liquidator)
        ELSE IF td = None
        THEN Res("MathOverflow", p1, v, 2, 0 - collateral_to_liquidator,
                 0 - repay_amount, repay_amount, collateral_to_liquidator)
        ELSE IF vc = None
        THEN Res("MathOverflow", p2, v, 2, 0 - collateral_to_liquidator,
                 0 - repay_amount, repay_amount, collateral_to_liquidator)
        ELSE IF vd = None
        THEN Res("MathOverflow", p2, v1, 2, 0 - collateral_to_liquidator,
                 0 - repay_amount, repay_amount, collateral_to_liquidator)
        ELSE Res("Ok", p2, v2, 2, 0 - collateral_to_liquidator,
                 0 - repay_amount, repay_amount, collateral_to_liquidator)

\* lines 461-594: eligibility, the repaid amount, the burn request, the
\* seized amount, the transfer request, totals and vault (r1, r2: the
\* VaultLiquidated event)
liquidate_apply(p, v) ==
    LET price == p.gor_price_usd
        vault_collateral_amount == v.collateral_amount
        vault_debt_amount == v.debt_amount
        collateral_value_usd ==
            calculate_usd_value(vault_collateral_amount, price, GOR_DECIMALS)
        collateral_ratio_bps ==
            WideMulDiv(collateral_value_usd, BPS_DENOMINATOR,
                       vault_debt_amount)
        bonus_denominator == BPS_DENOMINATOR + LIQUIDATION_PENALTY_BPS
        max_repay_u128 ==
            WideMulDiv(collateral_value_usd, BPS_DENOMINATOR,
                       bonus_denominator)
        repay_u128 == Min(vault_debt_amount, max_repay_u128)
        repay_amount == repay_u128
        \* 504-515: token_interface::burn(liquidator_gusd_account, repay)
        repay_with_bonus_u128 ==
            WideMulDiv(repay_amount, bonus_denominator, BPS_DENOMINATOR)
        collateral_to_liquidator_u128 ==
            WideMulDiv(repay_with_bonus_u128, Pow10(GOR_DECIMALS), price)
        collateral_to_liquidator == collateral_to_liquidator_u128
        \* 540-558: system_program::transfer(vault_collateral -> liquidator)
        tc == checked_sub(p.total_collateral, collateral_to_liquidator)
        p1 == [p EXCEPT !.total_collateral = tc]
        td == checked_sub(p1.total_debt, repay_amount)
        p2 == [p1 EXCEPT !.total_debt = td]
        vc == checked_sub(v.collateral_amount, collateral_to_liquidator)
        v1 == [v EXCEPT !.collateral_amount = vc]
        vd == checked_sub(v1.debt_amount, repay_amount)
        v2 == [v1 EXCEPT !.debt_amount = vd]
    IN  IF ~(vault_debt_amount > 0)
        THEN Res("NoDebtToLiquidate", p, v, 0, 0, 0, 0, 0)
        ELSE IF collateral_value_usd = None
        THEN Res("MathOverflow", p, v, 0, 0, 0, 0, 0)
        ELSE IF collateral_ratio_bps = None
        THEN Res("MathOverflow", p, v, 0, 0, 0, 0, 0)
        ELSE IF ~(collateral_ratio_bps < LIQUIDATION_THRESHOLD_BPS)
        THEN Res("VaultNotLiquidatable", p, v, 0, 0, 0, 0, 0)
        ELSE IF max_repay_u128 = None
        THEN Res("MathOverflow", p, v, 0, 0, 0, 0, 0)
        ELSE IF ~(repay_u128 > 0)
        THEN Res("LiquidationNotProfitable", p, v, 0, 0, 0, 0, 0)
        ELSE IF ~(repay_u128 <= U64_MAX)
        THEN Res("MathOverflow", p, v, 0, 0, 0, 0, 0)
        ELSE IF repay_with_bonus_u128 = None
        THEN Res("MathOverflow", p, v, 1, 0, 0 - repay_amount,
                 repay_amount, 0)
        ELSE IF collateral_to_liquidator_u128 = None
        THEN Res("MathOverflow", p, v, 1, 0, 0 - repay_amount,
                 repay_amount, 0)
        ELSE IF ~(collateral_to_liquidator_u128 <= U64_MAX)
        THEN Res("MathOverflow", p, v, 1, 0, 0 - repay_amount,
                 repay_amount, 0)
        ELSE IF ~(collateral_to_liquidator <= vault_collateral_amount)
        THEN Res("MathOverflow", p, v, 1, 0, 0 - repay_amount,
                 repay_amount, collateral_to_liquidator)
        ELSE IF tc = None
        THEN Res("MathOverflow", p, v, 2, 0 - collateral_to_liquidator,
                 0 - repay_amount, repay_amount, collateral_to_liquidator)
        ELSE IF td = None
        THEN Res("MathOverflow", p1, v, 2, 0 - collateral_to_liquidator,
                 0 - repay_amount, repay_amount, collateral_to_liquidator)
        ELSE IF vc = None
        THEN Res("MathOverflow", p2, v, 2, 0 - collateral_to_liquidator,
                 0 - repay_amount, repay_amount, collateral_to_liquidator)
        ELSE IF vd = None
        THEN Res("MathOverflow", p2, v1, 2, 0 - collateral_to_liquidator,
                 0 - repay_amount, repay_amount, collateral_to_liquidator)
        ELSE Res("Ok", p2, v2, 2, 0 - collateral_to_liquidator,
                 0 - repay_amount, repay_amount, collateral_to_liquidator)

\* (variant: without the pause check of line 459)
liquidate_no_pause(p, v) == liquidate_apply(p, v)

\* lines 457-459: the pause check
liquidate(p, v) ==
    IF ~(~p.is_paused)
    THEN Res("ProtocolPaused", p, v, 0, 0, 0, 0, 0)
    ELSE liquidate_apply(p, v)

\* ------------------------------------------------------------------------
\* get_vault_health (lib.rs 598-639): r1 = collateral_ratio_bps,
\* r2 = 1 when is_liquidatable
\* ------------------------------------------------------------------------
\* the VaultHealth value returned (lib.rs 614-620, 1042-1049); the health
\* field of an Err outcome is not a returned value
VaultHealth(v, collateral_value_usd, collateral_ratio, is_liquidatable) ==
    [collateral_amount |-> v.collateral_amount,
     collateral_value_usd |-> collateral_value_usd,
     debt_amount |-> v.debt_amount,
     collateral_ratio_bps |-> collateral_ratio,
     is_liquidatable |-> is_liquidatable]

\* (variant: the ratio of a vault without debt is 0, not u64::MAX)
get_vault_health_zero_ratio(p, v) ==
    LET collateral_value_usd ==
            calculate_usd_value(v.collateral_amount, p.gor_price_usd,
                                GOR_DECIMALS)
        rm == checked_mul(collateral_value_usd, BPS_DENOMINATOR)
        rd == checked_div(rm, v.debt_amount)
        collateral_ratio == IF v.debt_amount > 0 THEN rd ELSE 0
        is_liquidatable ==
            v.debt_amount > 0 /\ collateral_ratio < LIQUIDATION_THRESHOLD_BPS
        none == VaultHealth(v, 0, 0, FALSE)
    IN  IF collateral_value_usd = None
        THEN Res("MathOverflow", p, v, 0, 0, 0, 0, 0) @@ [health |-> none]
        ELSE IF v.debt_amount > 0 /\ rm = None
        THEN Res("MathOverflow", p, v, 0, 0, 0, 0, 0) @@ [health |-> none]
        ELSE IF v.debt_amount > 0 /\ rd = None
        THEN Res("MathOverflow", p, v, 0, 0, 0, 0, 0) @@ [health |-> none]
        ELSE Res("Ok", p, v, 0, 0, 0, collateral_ratio,
                 IF is_liquidatable THEN 1 ELSE 0)
             @@ [health |-> VaultHealth(v, collateral_value_usd,
                                        collateral_ratio, is_liquidatable)]

get_vault_health(p, v) ==
    LET collateral_value_usd ==
            calculate_usd_value(v.collateral_amount, p.gor_price_usd,
                                GOR_DECIMALS)
        rm == checked_mul(collateral_value_usd, BPS_DENOMINATOR)
        rd == checked_div(rm, v.debt_amount)
        collateral_ratio == IF v.debt_amount > 0 THEN rd ELSE U64_MAX
        is_liquidatable ==
            v.debt_amount > 0 /\ collateral_ratio < LIQUIDATION_THRESHOLD_BPS
        none == VaultHealth(v, 0, 0, FALSE)
    IN  IF collateral_value_usd = None
        THEN Res("MathOverflow", p, v, 0, 0, 0, 0, 0) @@ [health |-> none]
        ELSE IF v.debt_amount > 0 /\ rm = None
        THEN Res("MathOverflow", p, v, 0, 0, 0, 0, 0) @@ [health |-> none]
        ELSE IF v.debt_amount > 0 /\ rd = None
        THEN Res("MathOverflow", p, v, 0, 0, 0, 0, 0) @@ [health |-> none]
        ELSE Res("Ok", p, v, 0, 0, 0, collateral_ratio,
                 IF is_liquidatable THEN 1 ELSE 0)
             @@ [health |-> VaultHealth(v, collateral_value_usd,
                                        collateral_ratio, is_liquidatable)]

\* ------------------------------------------------------------------------
\* Account constraints (#[derive(Accounts)] structs, lib.rs 698-992)
\* ------------------------------------------------------------------------
\* (variant: any signer passes)
AdminConstraint_any_signer(p, signer) == signer # NullKey

\* UpdatePrice / TransferAdmin: admin.key() == protocol_state.admin
AdminConstraint(p, signer) == signer = p.admin

\* DepositCollateral, MintGusd, RepayGusd, WithdrawCollateral, CloseVault:
\* seeds = [b"vault", owner.key()]: the vault account passed with the
\* instruction (named by the key it was created for) must be the one
\* derived from the signer's key
VaultSeeds(signer, key) == key = signer

\* DepositCollateral, MintGusd, RepayGusd, WithdrawCollateral, CloseVault,
\* Liquidate: vault.owner == owner.key()
OwnerConstraint(v, key) == v.owner = key

\* (variant: the vault account is accepted from any signer)
VaultAccount_any_signer(p, v, signer, key, err, r0) == r0

\* the checks of the vault account, in the order Anchor generates them
\* (seeds, then constraint), before the handler (outcome r0) runs; err is
\* the error of the constraint (Unauthorized, InvalidVaultOwner for
\* CloseVault)
VaultAccount(p, v, signer, key, err, r0) ==
    IF ~VaultSeeds(signer, key)
    THEN Res("ConstraintSeeds", p, v, 0, 0, 0, 0, 0)
    ELSE IF ~OwnerConstraint(v, signer)
    THEN Res(err, p, v, 0, 0, 0, 0, 0)
    ELSE r0

\* ------------------------------------------------------------------------
\* Inputs of the model
\* ------------------------------------------------------------------------
CollateralAmounts == {0, 4000, 57501, U64_MAX}
StableAmounts == {0, 2, 31, U64_MAX}
InitPrices == {0, 799999}
NewPrices == {0, 639998, 639999, U64_MAX}

NoCall == [op |-> "none", who |-> NullKey, key |-> NullKey, arg |-> 0,
           err |-> "Ok", reqs |-> 0, r1 |-> 0, r2 |-> 0]

Init ==
    /\ protocol = NoProtocol
    /\ vaults = [k \in Keys |-> NoVault]
    /\ now = 0
    /\ escrow = [k \in Keys |-> 0]
    /\ issued = 0
    /\ nops = 0
    /\ last = NoCall

\* A rejected instruction changes nothing but `last` (Persist), so the
\* states that follow it are the states that follow the state before it:
\* the model explores them from the state before it.
Running == last.err = "Ok"

\* bookkeeping common to every instruction: the call record, the count of
\* successful instructions, and the ledger requests of a successful one
Finish(op, who, arg, r, key) ==
    /\ last' = Call(op, who, key, arg, r)
    /\ nops' = IF op \in {"pause_protocol", "unpause_protocol"} THEN nops
              ELSE Persist(r, nops, nops + 1)
    /\ escrow' = IF key \in Keys
                 THEN [escrow EXCEPT ![key] = Persist(r, @, @ + r.dcoll)]
                 ELSE escrow
    /\ issued' = Persist(r, issued, issued + r.dstable)

Initialize(admin, price) ==
    /\ Running
    /\ ~protocol.initialized
    /\ LET r == initialize(protocol, admin, price, now)
       IN  /\ protocol' = Persist(r, protocol, r.protocol)
           /\ last' = Call("initialize", admin, NullKey, price, r)
    /\ UNCHANGED <<vaults, now, escrow, issued, nops>>

UpdatePrice(signer, price) ==
    /\ protocol.initialized
    /\ Running
    /\ nops < MaxOps
    /\ LET r == IF ~AdminConstraint(protocol, signer)
                THEN Res("Unauthorized", protocol, NoVault, 0, 0, 0, 0, 0)
                ELSE update_price(protocol, price, now)
       IN  /\ protocol' = Persist(r, protocol, r.protocol)
           /\ Finish("update_price", signer, price, r, NullKey)
    /\ UNCHANGED <<vaults, now>>

PauseProtocol(signer) ==
    /\ protocol.initialized
    /\ Running
    /\ nops < MaxOps
    /\ LET r == IF ~AdminConstraint(protocol, signer)
                THEN Res("Unauthorized", protocol, NoVault, 0, 0, 0, 0, 0)
                ELSE pause_protocol(protocol)
       IN  /\ protocol' = Persist(r, protocol, r.protocol)
           /\ Finish("pause_protocol", signer, 0, r, NullKey)
    /\ UNCHANGED <<vaults, now>>

UnpauseProtocol(signer) ==
    /\ protocol.initialized
    /\ Running
    /\ nops < MaxOps
    /\ LET r == IF ~AdminConstraint(protocol, signer)
                THEN Res("Unauthorized", protocol, NoVault, 0, 0, 0, 0, 0)
                ELSE unpause_protocol(protocol)
       IN  /\ protocol' = Persist(r, protocol, r.protocol)
           /\ Finish("unpause_protocol", signer, 0, r, NullKey)
    /\ UNCHANGED <<vaults, now>>

TransferAdmin(signer, new_admin) ==
    /\ protocol.initialized
    /\ Running
    /\ nops < MaxOps
    /\ LET r == IF ~AdminConstraint(protocol, signer)
                THEN Res("Unauthorized", protocol, NoVault, 0, 0, 0, 0, 0)
                ELSE transfer_admin(protocol, new_admin)
       IN  /\ protocol' = Persist(r, protocol, r.protocol)
           /\ Finish("transfer_admin", signer, new_admin, r, NullKey)
    /\ UNCHANGED <<vaults, now>>

CreateVault(owner) ==
    /\ ~VaultExists(owner)
    /\ Running
    /\ nops < MaxOps
    /\ LET r == create_vault(owner)
       IN  /\ vaults' = [vaults EXCEPT ![owner] = Persist(r, @, r.vault)]
           /\ Finish("create_vault", owner, 0, r, owner)
    /\ UNCHANGED <<protocol, now>>

\* the four position instructions share their accounts and their
\* write-back: owner is the signer, key names the vault account passed
Position(op, owner, key, amount, r0) ==
    /\ protocol.initialized
    /\ VaultExists(key)
    /\ Running
    /\ nops < MaxOps
    /\ LET r == VaultAccount(protocol, vaults[key], owner, key,
                             "Unauthorized", r0)
       IN  /\ protocol' = Persist(r, protocol, r.protocol)
           /\ vaults' = [vaults EXCEPT ![key] = Persist(r, @, r.vault)]
           /\ Finish(op, owner, amount, r, key)
    /\ UNCHANGED now

DepositCollateral(owner, key, amount) ==
    Position("deposit_collateral", owner, key, amount,
             deposit_collateral(protocol, vaults[key], amount))

MintGusd(owner, key, amount) ==
    Position("mint_gusd", owner, key, amount,
             mint_gusd(protocol, vaults[key], amount))

RepayGusd(owner, key, amount) ==
    Position("repay_gusd", owner, key, amount,
             repay_gusd(protocol, vaults[key], amount))

WithdrawCollateral(owner, key, amount) ==
    Position("withdraw_collateral", owner, key, amount,
             withdraw_collateral(protocol, vaults[key], amount))

\* dust: lamports in the vault_collateral account beyond the tracked
\* collateral (rent, direct transfers)
CloseVault(owner, key, dust) ==
    /\ VaultExists(key)
    /\ Running
    /\ nops < MaxOps
    /\ LET r == VaultAccount(NoProtocol, vaults[key], owner, key,
                             "InvalidVaultOwner",
                             close_vault(vaults[key], escrow[key] + dust))
       IN  /\ vaults' = [vaults EXCEPT ![key] = Persist(r, @, r.vault)]
           /\ last' = Call("close_vault", owner, key, 0, r)
           /\ nops' = Persist(r, nops, nops + 1)
           /\ escrow' = [escrow EXCEPT ![key] = Persist(r, @, 0)]
    /\ UNCHANGED <<protocol, now, issued>>

Liquidate(liquidator, vault_owner) ==
    /\ protocol.initialized
    /\ VaultExists(vault_owner)
    /\ Running
    /\ nops < MaxOps
    /\ LET r == IF ~OwnerConstraint(vaults[vault_owner], vault_owner)
                THEN Res("InvalidVaultOwner", protocol, vaults[vault_owner],
                         0, 0, 0, 0, 0)
                ELSE liquidate(protocol, vaults[vault_owner])
       IN  /\ protocol' = Persist(r, protocol, r.protocol)
           /\ vaults' = [vaults EXCEPT ![vault_owner] =
                             Persist(r, @, r.vault)]
           /\ Finish("liquidate", liquidator, vault_owner, r, vault_owner)
    /\ UNCHANGED now

GetVaultHealth(vault_owner) ==
    /\ protocol.initialized
    /\ VaultExists(vault_owner)
    /\ Running
    /\ nops < MaxOps
    /\ LET r == get_vault_health(protocol, vaults[vault_owner])
       IN  /\ last' = Call("get_vault_health", NullKey, vault_owner,
                           vault_owner, r)
    /\ UNCHANGED <<protocol, vaults, now, escrow, issued, nops>>

\* the cluster clock advances
Tick ==
    /\ Running
    /\ now < MaxTime
    /\ now' = now + 1
    /\ last' = [NoCall EXCEPT !.op = "tick"]
    /\ UNCHANGED <<protocol, vaults, escrow, issued, nops>>

Next ==
    \/ \E k \in Keys, x \in InitPrices : Initialize(k, x)
    \/ \E k \in Keys, x \in NewPrices : UpdatePrice(k, x)
    \/ \E k \in Keys : PauseProtocol(k)
    \/ \E k \in Keys : UnpauseProtocol(k)
    \/ \E k \in Keys, n \in Keys \cup {NullKey} : TransferAdmin(k, n)
    \/ \E k \in Keys : CreateVault(k)
    \/ \E s \in Keys, k \in Keys, a \in CollateralAmounts :
           DepositCollateral(s, k, a)
    \/ \E s \in Keys, k \in Keys, a \in StableAmounts : MintGusd(s, k, a)
    \/ \E s \in Keys, k \in Keys, a \in StableAmounts : RepayGusd(s, k, a)
    \/ \E s \in Keys, k \in Keys, a \in CollateralAmounts :
           WithdrawCollateral(s, k, a)
    \/ \E s \in Keys, k \in Keys, d \in {0, 1} : CloseVault(s, k, d)
    \/ \E l \in Keys, k \in Keys : Liquidate(l, k)
    \/ \E k \in Keys : GetVaultHealth(k)
    \/ Tick

Spec == Init /\ [][Next]_vars

\* ------------------------------------------------------------------------
\* Type invariant
\* ------------------------------------------------------------------------
TypeOK ==
    /\ protocol.gor_price_usd \in 0..U64_MAX
    /\ protocol.total_collateral \in 0..U64_MAX
    /\ protocol.total_debt \in 0..U64_MAX
    /\ \A k \in Keys : /\ vaults[k].collateral_amount \in 0..U64_MAX
                       /\ vaults[k].debt_amount \in 0..U64_MAX
    /\ now \in 0..MaxTime
    /\ nops \in 0..MaxOps

\* ------------------------------------------------------------------------
\* The same instructions on one vault with the smallest amounts: collateral
\* worth 1 to 3 units of 10^-6 USD and debts of 1 and 2, where the rounding
\* of the required collateral decides
\* ------------------------------------------------------------------------
DustCollateralAmounts == {500, 2000, 4000}
DustStableAmounts == {1, 2, U64_MAX}
DustPrices == {799999, 639999}

DustNext ==
    \/ \E x \in DustPrices : Initialize(1, x)
    \/ \E x \in DustPrices : UpdatePrice(1, x)
    \/ CreateVault(1)
    \/ \E a \in DustCollateralAmounts : DepositCollateral(1, 1, a)
    \/ \E a \in DustStableAmounts : MintGusd(1, 1, a)
    \/ \E a \in DustStableAmounts : RepayGusd(1, 1, a)
    \/ \E a \in DustCollateralAmounts : WithdrawCollateral(1, 1, a)
    \/ Liquidate(2, 1)
    \/ GetVaultHealth(1)
    \/ Tick

DustSpec == Init /\ [][DustNext]_vars

\* ------------------------------------------------------------------------
\* One vault in every combination of collateral, debt and price of a grid.
\* Each combination is a state of the program: the owner deposits the
\* collateral and mints the debt (within the largest debt whose required
\* collateral mint_gusd can compute) while the price is high or the
\* collateral is larger, and deposits, withdrawals and admissible price
\* updates then move collateral and price to the values of the grid.  The
\* instructions that read the position (liquidate, get_vault_health,
\* mint_gusd) are applied to it.
\* ------------------------------------------------------------------------
GridPrices == {1, 639999, 799999, Pow10(6), 105 * Pow10(7), U64_MAX}
GridCollateralAmounts ==
    {1, 2, 3, 1500, 2000, 4000, 11500, 57501, 61501, Pow10(9), U64_MAX}
GridDebtAmounts ==
    {0, 1, 2, 6, 31, 700, U64_MAX \div MIN_COLLATERAL_RATIO_BPS}
GridStableAmounts == {1, 2}

GridInit ==
    \E price \in GridPrices, c \in GridCollateralAmounts,
       d \in GridDebtAmounts :
        /\ required_collateral(d) # None
        /\ protocol = [initialized |-> TRUE, admin |-> 1,
                       gor_price_usd |-> price, total_collateral |-> c,
                       total_debt |-> d, is_paused |-> FALSE,
                       last_price_update_ts |-> 0]
        /\ vaults = [k \in Keys |->
                        IF k = 1
                        THEN [owner |-> 1, collateral_amount |-> c,
                              debt_amount |-> d]
                        ELSE NoVault]
        /\ now = 0
        /\ escrow = [k \in Keys |-> IF k = 1 THEN c ELSE 0]
        /\ issued = d
        /\ nops = 0
        /\ last = NoCall

GridNext ==
    \/ Liquidate(2, 1)
    \/ GetVaultHealth(1)
    \/ \E a \in GridStableAmounts : MintGusd(1, 1, a)

GridSpec == GridInit /\ [][GridNext]_vars

\* ------------------------------------------------------------------------
\* Two vaults, each with a position the owner can have opened (empty,
\* funded, or with a debt minted at the initial price of the main
\* specification), at that price or after one update of it; the position
\* instructions are applied to both.
\* ------------------------------------------------------------------------
PairPositions ==
    {[collateral_amount |-> 0, debt_amount |-> 0],
     [collateral_amount |-> 4000, debt_amount |-> 0],
     [collateral_amount |-> 4000, debt_amount |-> 2],
     [collateral_amount |-> 57501, debt_amount |-> 31]}
PairPrices == {799999, 639999}
PairCollateralAmounts == {4000, U64_MAX}
PairStableAmounts == {2}

PairInit ==
    \E price \in PairPrices, x \in PairPositions, y \in PairPositions :
        /\ checked_add(x.collateral_amount, y.collateral_amount) # None
        /\ protocol = [initialized |-> TRUE, admin |-> 1,
                       gor_price_usd |-> price,
                       total_collateral |->
                           x.collateral_amount + y.collateral_amount,
                       total_debt |-> x.debt_amount + y.debt_amount,
                       is_paused |-> FALSE, last_price_update_ts |-> 0]
        /\ vaults = [k \in Keys |->
                        [owner |-> k,
                         collateral_amount |->
                             IF k = 1 THEN x.collateral_amount
                             ELSE y.collateral_amount,
                         debt_amount |->
                             IF k = 1 THEN x.debt_amount
                             ELSE y.debt_amount]]
        /\ now = 0
        /\ escrow = [k \in Keys |-> vaults[k].collateral_amount]
        /\ issued = x.debt_amount + y.debt_amount
        /\ nops = 0
        /\ last = NoCall

PairNext ==
    \/ \E k \in Keys, a \in PairCollateralAmounts :
           DepositCollateral(k, k, a)
    \/ \E k \in Keys, a \in PairStableAmounts : MintGusd(k, k, a)
    \/ \E k \in Keys, a \in PairStableAmounts : RepayGusd(k, k, a)
    \/ \E k \in Keys, a \in PairCollateralAmounts :
           WithdrawCollateral(k, k, a)
    \/ \E k \in Keys : Liquidate(CHOOSE l \in Keys : l # k, k)

PairSpec == PairInit /\ [][PairNext]_vars

\* ------------------------------------------------------------------------
\* Full-width integers.  The amounts of the program's documented example
\* (10^10 and more) exceed the integers of the model checker, so the
\* handlers of the example are also modelled over exact naturals written as
\* sequences of limbs in base Limb, least significant first, without
\* leading zero limbs (<<>> is 0), with the program's real u64::MAX.
\* ------------------------------------------------------------------------
Limb == Pow10(4)

RECURSIVE BigOf(_)
BigOf(n) == IF n = 0 THEN <<>> ELSE <<n % Limb>> \o BigOf(n \div Limb)

RECURSIVE Norm(_)
Norm(x) ==
    IF x = <<>> THEN x
    ELSE IF x[Len(x)] = 0 THEN Norm(SubSeq(x, 1, Len(x) - 1))
    ELSE x

LimbAt(x, i) == IF i <= Len(x) THEN x[i] ELSE 0

RECURSIVE BigLEFrom(_, _, _)
BigLEFrom(x, y, i) ==
    IF i = 0 THEN TRUE
    ELSE IF x[i] # y[i] THEN x[i] < y[i]
    ELSE BigLEFrom(x, y, i - 1)

\* x <= y
BigLE(x, y) ==
    IF Len(x) # Len(y) THEN Len(x) < Len(y) ELSE BigLEFrom(x, y, Len(x))

RECURSIVE BigAddFrom(_, _, _, _)
BigAddFrom(x, y, i, carry) ==
    IF i > Len(x) /\ i > Len(y)
    THEN IF carry = 0 THEN <<>> ELSE <<carry>>
    ELSE LET t == LimbAt(x, i) + LimbAt(y, i) + carry
         IN  <<t % Limb>> \o BigAddFrom(x, y, i + 1, t \div Limb)

\* x + y
BigAdd(x, y) == BigAddFrom(x, y, 1, 0)

RECURSIVE BigSubFrom(_, _, _, _)
BigSubFrom(x, y, i, borrow) ==
    IF i > Len(x) THEN <<>>
    ELSE LET t == x[i] - LimbAt(y, i) - borrow
         IN  IF t < 0
             THEN <<t + Limb>> \o BigSubFrom(x, y, i + 1, 1)
             ELSE <<t>> \o BigSubFrom(x, y, i + 1, 0)

\* x - y, for y <= x
BigSub(x, y) == Norm(BigSubFrom(x, y, 1, 0))

RECURSIVE BigMulLimbFrom(_, _, _, _)
BigMulLimbFrom(x, m, i, carry) ==
    IF i > Len(x)
    THEN IF carry = 0 THEN <<>> ELSE <<carry>>
    ELSE LET t == x[i] * m + carry
         IN  <<t % Limb>> \o BigMulLimbFrom(x, m, i + 1, t \div Limb)

\* x * m, for a single limb m
BigMulLimb(x, m) == Norm(BigMulLimbFrom(x, m, 1, 0))

\* x * Limb
BigShift(x) == IF x = <<>> THEN x ELSE <<0>> \o x

\* x * y
RECURSIVE BigMul(_, _)
BigMul(x, y) ==
    IF y = <<>> THEN <<>>
    ELSE BigAdd(BigMulLimb(x, Head(y)), BigShift(BigMul(x, Tail(y))))

\* the largest limb d in lo..hi with y * d <= r
RECURSIVE BigDigit(_, _, _, _)
BigDigit(r, y, lo, hi) ==
    IF lo = hi THEN lo
    ELSE LET mid == (lo + hi + 1) \div 2
         IN  IF BigLE(BigMulLimb(y, mid), r)
             THEN BigDigit(r, y, mid, hi)
             ELSE BigDigit(r, y, lo, mid - 1)

\* quotient and remainder of the limbs i.. of x by y > 0 (long division)
RECURSIVE BigDivFrom(_, _, _)
BigDivFrom(x, y, i) ==
    IF i > Len(x) THEN [q |-> <<>>, r |-> <<>>]
    ELSE LET h  == BigDivFrom(x, y, i + 1)
             r1 == Norm(<<x[i]>> \o h.r)
             d  == BigDigit(r1, y, 0, Limb - 1)
         IN  [q |-> <<d>> \o h.q, r |-> BigSub(r1, BigMulLimb(y, d))]

\* floor(x / y), for y > 0
BigDiv(x, y) == Norm(BigDivFrom(x, y, 1).q)

\* u64::MAX = 18446744073709551615
U64_MAX_WIDE == <<1615, 955, 737, 6744, 1844>>

\* Option::None of a full-width value
NoneWide == <<None>>

checked_add_wide(a, b) ==
    LET s == BigAdd(a, b)
    IN  IF BigLE(s, U64_MAX_WIDE) THEN s ELSE NoneWide

checked_mul_wide(a, b) ==
    LET m == BigMul(a, b)
    IN  IF BigLE(m, U64_MAX_WIDE) THEN m ELSE NoneWide

checked_div_wide(a, b) == IF b = <<>> THEN NoneWide ELSE BigDiv(a, b)

\* calculate_usd_value (lib.rs 648-663): the u128 product of two u64 does
\* not overflow and 10^gor_decimals is not 0
calculate_usd_value_wide(gor_amount, gor_price_usd, gor_decimals) ==
    LET value == BigDiv(BigMul(gor_amount, gor_price_usd),
                        BigOf(Pow10(gor_decimals)))
    IN  IF ~BigLE(value, U64_MAX_WIDE) THEN NoneWide ELSE value

\* deposit_collateral (lib.rs 179-213)
deposit_collateral_wide(p, v, amount) ==
    LET c  == checked_add_wide(v.collateral_amount, amount)
        v1 == [v EXCEPT !.collateral_amount = c]
        t  == checked_add_wide(p.total_collateral, amount)
        p1 == [p EXCEPT !.total_collateral = t]
    IN  IF amount = <<>>
        THEN Res("InvalidAmount", p, v, 0, <<>>, <<>>, <<>>, <<>>)
        ELSE IF c = NoneWide
        THEN Res("MathOverflow", p, v, 1, amount, <<>>, <<>>, <<>>)
        ELSE IF t = NoneWide
        THEN Res("MathOverflow", p, v1, 1, amount, <<>>, <<>>, <<>>)
        ELSE Res("Ok", p1, v1, 1, amount, <<>>, amount,
                 v1.collateral_amount)

\* (variant: the required collateral is not divided by BPS_DENOMINATOR)
required_collateral_wide_undivided(debt) ==
    checked_mul_wide(debt, BigOf(MIN_COLLATERAL_RATIO_BPS))

\* lines 235-239: debt * MIN_COLLATERAL_RATIO_BPS / BPS_DENOMINATOR in u64
required_collateral_wide(debt) ==
    LET m == checked_mul_wide(debt, BigOf(MIN_COLLATERAL_RATIO_BPS))
    IN  IF m = NoneWide THEN NoneWide
        ELSE checked_div_wide(m, BigOf(BPS_DENOMINATOR))

\* mint_gusd (lib.rs 216-293)
mint_gusd_wide(p, v, amount) ==
    LET new_debt == checked_add_wide(v.debt_amount, amount)
        collateral_value_usd ==
            calculate_usd_value_wide(v.collateral_amount, p.gor_price_usd,
                                     GOR_DECIMALS)
        required == required_collateral_wide(new_debt)
        \* 246-263: token_interface::mint_to(user_gusd_account, amount)
        v1 == [v EXCEPT !.debt_amount = new_debt]
        t  == checked_add_wide(p.total_debt, amount)
        p1 == [p EXCEPT !.total_debt = t]
        rm == checked_mul_wide(collateral_value_usd,
                               BigOf(BPS_DENOMINATOR))
        collateral_ratio_bps == checked_div_wide(rm, new_debt)
    IN  IF ~(~p.is_paused)
        THEN Res("ProtocolPaused", p, v, 0, <<>>, <<>>, <<>>, <<>>)
        ELSE IF amount = <<>>
        THEN Res("InvalidAmount", p, v, 0, <<>>, <<>>, <<>>, <<>>)
        ELSE IF new_debt = NoneWide
        THEN Res("MathOverflow", p, v, 0, <<>>, <<>>, <<>>, <<>>)
        ELSE IF collateral_value_usd = NoneWide
        THEN Res("MathOverflow", p, v, 0, <<>>, <<>>, <<>>, <<>>)
        ELSE IF required = NoneWide
        THEN Res("MathOverflow", p, v, 0, <<>>, <<>>, <<>>, <<>>)
        ELSE IF ~BigLE(required, collateral_value_usd)
        THEN Res("InsufficientCollateral", p, v, 0, <<>>, <<>>, <<>>, <<>>)
        ELSE IF t = NoneWide
        THEN Res("MathOverflow", p, v1, 1, <<>>, amount, <<>>, <<>>)
        ELSE IF rm = NoneWide
        THEN Res("MathOverflow", p1, v1, 1, <<>>, amount, <<>>, <<>>)
        ELSE IF collateral_ratio_bps = NoneWide
        THEN Res("MathOverflow", p1, v1, 1, <<>>, amount, <<>>, <<>>)
        ELSE Res("Ok", p1, v1, 1, <<>>, amount, amount,
                 collateral_ratio_bps)

\* inputs of the example: 10 and 10000 units of collateral (10^9 lamports
\* each), 6 and 6000 GUSD (10^6 each), the prices $1.00 and $0.70
WideCollateralAmounts ==
    {<<>>, BigMul(BigOf(10), BigOf(Pow10(GOR_DECIMALS))),
     BigMul(BigOf(10000), BigOf(Pow10(GOR_DECIMALS))), U64_MAX_WIDE}
WideStableAmounts ==
    {<<>>, BigMul(BigOf(6), BigOf(Pow10(GUSD_DECIMALS))),
     BigMul(BigOf(6000), BigOf(Pow10(GUSD_DECIMALS)))}
WidePrices == {BigOf(1000000), BigOf(700000)}

\* the state after initialize (paused or not afterwards) and create_vault
\* for each key; the ledger totals are not followed in this specification
ExampleInit ==
    /\ \E x \in WidePrices, b \in BOOLEAN :
          protocol = [initialized |-> TRUE, admin |-> 1,
                      gor_price_usd |-> x, total_collateral |-> <<>>,
                      total_debt |-> <<>>, is_paused |-> b,
                      last_price_update_ts |-> 0]
    /\ vaults = [k \in Keys |->
                    [owner |-> k, collateral_amount |-> <<>>,
                     debt_amount |-> <<>>]]
    /\ now = 0
    /\ escrow = [k \in Keys |-> 0]
    /\ issued = 0
    /\ nops = 0
    /\ last = NoCall

WidePosition(op, owner, amount, r) ==
    /\ Running
    /\ nops < MaxOps
    /\ protocol' = Persist(r, protocol, r.protocol)
    /\ vaults' = [vaults EXCEPT ![owner] = Persist(r, @, r.vault)]
    /\ last' = Call(op, owner, owner, amount, r)
    /\ nops' = Persist(r, nops, nops + 1)
    /\ UNCHANGED <<now, escrow, issued>>

WideDepositCollateral(owner, amount) ==
    WidePosition("deposit_collateral", owner, amount,
                 deposit_collateral_wide(protocol, vaults[owner], amount))

WideMintGusd(owner, amount) ==
    WidePosition("mint_gusd", owner, amount,
                 mint_gusd_wide(protocol, vaults[owner], amount))

ExampleNext ==
    \/ \E k \in Keys, a \in WideCollateralAmounts :
           WideDepositCollateral(k, a)
    \/ \E k \in Keys, a \in WideStableAmounts : WideMintGusd(k, a)

ExampleSpec == ExampleInit /\ [][ExampleNext]_vars

\* ------------------------------------------------------------------------
\* Properties
\* ------------------------------------------------------------------------
PositionOps ==
    {"deposit_collateral", "mint_gusd", "repay_gusd", "withdraw_collateral"}

Accepted(c, op) == c.op = op /\ c.err = "Ok"

Rejected(c) == c.err # "Ok"

\* sum of f over the keys of S (saturating above every u64)
RECURSIVE SumOver(_, _)
SumOver(S, f) ==
    IF S = {} THEN 0
    ELSE LET k == CHOOSE x \in S : TRUE
         IN  SatAdd(f[k], SumOver(S \ {k}, f))

\* C1: in every reachable state, whatever instructions led to it, the
\* protocol's total_collateral is the sum of the collateral_amount of all
\* vaults and its total_debt is the sum of their debt_amount.
TotalsAreVaultSums ==
    /\ protocol.total_collateral =
           SumOver(Keys, [k \in Keys |-> vaults[k].collateral_amount])
    /\ protocol.total_debt =
           SumOver(Keys, [k \in Keys |-> vaults[k].debt_amount])

\* two vaults hold collateral and one of them has just been given debt
TotalsOverTwoVaults ==
    /\ Accepted(last, "mint_gusd")
    /\ \A k \in Keys : vaults[k].collateral_amount > 0
    /\ protocol.total_debt > 0

\* USD value of a vault's collateral at the stored price
VaultValue(k) ==
    calculate_usd_value(vaults[k].collateral_amount, protocol.gor_price_usd,
                        GOR_DECIMALS)

\* C2 as stated: after every accepted mint the vault satisfies
\* value * BPS_DENOMINATOR >= debt * MIN_COLLATERAL_RATIO_BPS exactly.
MintKeepsExactRatio ==
    Accepted(last, "mint_gusd") =>
        VaultValue(last.key) * BPS_DENOMINATOR >=
            vaults[last.key].debt_amount * MIN_COLLATERAL_RATIO_BPS

\* C2, amended: after every accepted mint the value of the vault's
\* collateral is at least the required collateral rounded down,
\* floor(debt * MIN_COLLATERAL_RATIO_BPS / BPS_DENOMINATOR).
MintKeepsFloorRatio ==
    Accepted(last, "mint_gusd") =>
        VaultValue(last.key) >=
            (vaults[last.key].debt_amount * MIN_COLLATERAL_RATIO_BPS)
                \div BPS_DENOMINATOR

\* an accepted mint that leaves the vault exactly at the rounded-down
\* requirement and short of the exact ratio
MintAtRoundedRequirement ==
    /\ Accepted(last, "mint_gusd")
    /\ VaultValue(last.key) =
           (vaults[last.key].debt_amount * MIN_COLLATERAL_RATIO_BPS)
               \div BPS_DENOMINATOR
    /\ (vaults[last.key].debt_amount * MIN_COLLATERAL_RATIO_BPS)
           % BPS_DENOMINATOR # 0

\* C3: every accepted liquidation asks the ledger to move out of the escrow
\* no more collateral than the vault's collateral_amount before the call,
\* and to burn no more than the vault's debt_amount before the call.
LiquidationWithinVault ==
    [][Accepted(last', "liquidate") =>
          LET k == last'.arg
          IN  /\ escrow[k] - escrow'[k] = last'.r2
              /\ escrow[k] - escrow'[k] <= vaults[k].collateral_amount
              /\ issued - issued' = last'.r1
              /\ issued - issued' <= vaults[k].debt_amount]_vars

\* an accepted liquidation that repaid the whole debt of a vault whose
\* collateral would have paid for more, and left collateral behind
LiquidationCappedAtDebt ==
    /\ Accepted(last, "liquidate")
    /\ last.r1 > 0
    /\ vaults[last.arg].debt_amount = 0
    /\ vaults[last.arg].collateral_amount > 0
    /\ WideMulDiv(VaultValue(last.arg), BPS_DENOMINATOR,
                  BPS_DENOMINATOR + LIQUIDATION_PENALTY_BPS) > 0

NoRequestBeforeRejection ==
    Rejected(last) => last.reqs = 0

\* extent of the failure of C5: an instruction that ends in a rejection has
\* issued a ledger request only when the rejection is MathOverflow in
\* deposit_collateral (the balance or the total overflows after the transfer
\* request) or in mint_gusd (total_debt or the reported ratio overflows after
\* the mint request); every other rejection precedes the first request.
OnlyOverflowAfterRequest ==
    (Rejected(last) /\ last.reqs > 0) =>
        /\ last.err = "MathOverflow"
        /\ last.op \in {"deposit_collateral", "mint_gusd"}

\* a mint that passed the collateral check, issued the mint request and was
\* then rejected
MintRejectedAfterRequest ==
    /\ last.op = "mint_gusd"
    /\ last.err = "MathOverflow"
    /\ last.reqs = 1

\* |a - b|
AbsDiff(a, b) == IF a >= b THEN a - b ELSE b - a

\* BPS_DENOMINATOR / MAX_PRICE_CHANGE_BPS: delta / old exceeds
\* MAX_PRICE_CHANGE_BPS / BPS_DENOMINATOR iff delta * PriceStep > old
PriceStep == BPS_DENOMINATOR \div MAX_PRICE_CHANGE_BPS

ExceedsPercentage(delta, old) == delta > old \div PriceStep

\* max(1, ceil(old * MAX_PRICE_CHANGE_BPS / BPS_DENOMINATOR))
PriceLimit(old) == Max(1, (old + (PriceStep - 1)) \div PriceStep)

\* an update_price by the admin with a positive price, the interval elapsed
GuardedUpdate(c) ==
    /\ c.op = "update_price"
    /\ c.who = protocol.admin
    /\ c.arg > 0
    /\ now - protocol.last_price_update_ts >= MIN_PRICE_UPDATE_INTERVAL_SECS

\* accepted iff the change is within PriceLimit, rejected with
\* PriceChangeExceedsLimit otherwise; on acceptance price and timestamp set
LimitDecides(c) ==
    IF AbsDiff(c.arg, protocol.gor_price_usd)
           <= PriceLimit(protocol.gor_price_usd)
    THEN /\ c.err = "Ok"
         /\ protocol' = [protocol EXCEPT !.gor_price_usd = c.arg,
                                         !.last_price_update_ts = now]
    ELSE /\ c.err = "PriceChangeExceedsLimit"
         /\ UNCHANGED protocol

\* C6 as stated: such an update is accepted iff the change is at most
\* max(1, ceil(old * MAX_PRICE_CHANGE_BPS / BPS_DENOMINATOR)), and it is
\* rejected with PriceChangeExceedsLimit whenever the change divided by the
\* old price exceeds MAX_PRICE_CHANGE_BPS / BPS_DENOMINATOR.
PriceLimitAndPercentage ==
    [][GuardedUpdate(last') =>
          /\ LimitDecides(last')
          /\ ExceedsPercentage(AbsDiff(last'.arg, protocol.gor_price_usd),
                               protocol.gor_price_usd)
                 => last'.err = "PriceChangeExceedsLimit"]_vars

\* C6, amended: such an update is accepted iff the change is at most
\* max(1, ceil(old * MAX_PRICE_CHANGE_BPS / BPS_DENOMINATOR)) and rejected
\* with PriceChangeExceedsLimit otherwise (a change that exceeds the
\* percentage by less than the rounding, or a change of 1, is accepted); an
\* accepted update stores the new price and the current time.
PriceLimitDecides ==
    [][GuardedUpdate(last') => LimitDecides(last')]_vars

\* an update accepted exactly at the rounded-up limit, above the percentage
UpdateAtRoundedLimit ==
    /\ Accepted(last, "update_price")
    /\ AbsDiff(last.r2, last.r1) = PriceLimit(last.r1)
    /\ ExceedsPercentage(AbsDiff(last.r2, last.r1), last.r1)
    /\ protocol.gor_price_usd = last.r2
    /\ protocol.last_price_update_ts = now

\* an update_price by the admin before the minimum interval has elapsed
EarlyUpdate(c) ==
    /\ c.op = "update_price"
    /\ c.who = protocol.admin
    /\ now - protocol.last_price_update_ts < MIN_PRICE_UPDATE_INTERVAL_SECS

\* C7 as stated: an update_price before the minimum interval has elapsed
\* fails with PriceUpdateTooFrequent whatever the price, and changes nothing.
EarlyUpdateTooFrequent ==
    [][EarlyUpdate(last') =>
          /\ last'.err = "PriceUpdateTooFrequent"
          /\ UNCHANGED protocol]_vars

\* C7, amended: an update_price before the minimum interval has elapsed
\* fails with PriceUpdateTooFrequent for every price > 0 and with
\* InvalidPrice for the price 0, and leaves price and timestamp unchanged.
EarlyUpdateRejected ==
    [][EarlyUpdate(last') =>
          /\ last'.err = IF last'.arg > 0 THEN "PriceUpdateTooFrequent"
                         ELSE "InvalidPrice"
          /\ UNCHANGED protocol]_vars

\* a second update at the time of an accepted one, with a price within the
\* limit, rejected as too frequent
SecondUpdateSameTime ==
    /\ last.op = "update_price"
    /\ last.err = "PriceUpdateTooFrequent"
    /\ protocol.last_price_update_ts = now
    /\ protocol.gor_price_usd \in NewPrices
    /\ AbsDiff(last.arg, protocol.gor_price_usd)
           <= PriceLimit(protocol.gor_price_usd)

\* the protocol state with the pause flag cleared
Unpaused == [protocol EXCEPT !.is_paused = FALSE]

\* the outcome of instruction c on the unpaused protocol state
UnpausedOutcome(c) ==
    CASE c.op = "deposit_collateral" ->
             VaultAccount(Unpaused, vaults[c.key], c.who, c.key,
                          "Unauthorized",
                          deposit_collateral(Unpaused, vaults[c.key],
                                             c.arg)).err
      [] c.op = "repay_gusd" ->
             VaultAccount(Unpaused, vaults[c.key], c.who, c.key,
                          "Unauthorized",
                          repay_gusd(Unpaused, vaults[c.key], c.arg)).err
      [] c.op = "get_vault_health" ->
             get_vault_health(Unpaused, vaults[c.arg]).err
      [] c.op = "liquidate" -> liquidate(Unpaused, vaults[c.arg]).err
      [] OTHER -> c.err

\* the rejection of a call made while paused: ProtocolPaused, for a call that
\* passes the validation of its accounts (a vault account passed by someone
\* other than its owner is refused before the handler runs)
PausedOutcome(c) ==
    IF c.op = "liquidate" \/ c.who = c.key THEN "ProtocolPaused"
    ELSE "ConstraintSeeds"

\* C8 as stated: while paused, mint and withdraw are rejected with
\* ProtocolPaused, and deposit, repay, liquidate and the health query are
\* never rejected because of the flag.
PauseStopsMintWithdrawOnly ==
    [][protocol.is_paused =>
          /\ last'.op \in {"mint_gusd", "withdraw_collateral"}
                 => last'.err = PausedOutcome(last')
          /\ last'.op \in {"deposit_collateral", "repay_gusd", "liquidate",
                           "get_vault_health"}
                 => /\ last'.err # "ProtocolPaused"
                    /\ last'.err = UnpausedOutcome(last')]_vars

\* C8, amended: while paused, mint, withdraw and liquidate are rejected with
\* ProtocolPaused; deposit, repay and the health query are never rejected
\* because of the flag: their outcome is the one they have when not paused.
PauseStopsMintWithdrawLiquidate ==
    [][protocol.is_paused =>
          /\ last'.op \in {"mint_gusd", "withdraw_collateral", "liquidate"}
                 => last'.err = PausedOutcome(last')
          /\ last'.op \in {"deposit_collateral", "repay_gusd",
                           "get_vault_health"}
                 => /\ last'.err # "ProtocolPaused"
                    /\ last'.err = UnpausedOutcome(last')]_vars

\* a mint rejected only because of the pause flag
MintStoppedByPause ==
    /\ last.op = "mint_gusd"
    /\ last.err = "ProtocolPaused"
    /\ protocol.is_paused
    /\ mint_gusd(Unpaused, vaults[last.key], last.arg).err = "Ok"

\* C9: while paused, liquidate on any vault, also one below the liquidation
\* threshold, fails with ProtocolPaused and changes nothing.
PausedLiquidateRejected ==
    [][(last'.op = "liquidate" /\ protocol.is_paused) =>
          /\ last'.err = "ProtocolPaused"
          /\ last'.reqs = 0
          /\ UNCHANGED <<protocol, vaults, escrow, issued>>]_vars

\* a liquidation rejected only because of the pause flag: the vault is below
\* the threshold and the liquidation is accepted when not paused
LiquidationStoppedByPause ==
    /\ last.op = "liquidate"
    /\ last.err = "ProtocolPaused"
    /\ protocol.is_paused
    /\ liquidate(Unpaused, vaults[last.arg]).err = "Ok"

\* a position instruction called by the owner of the vault with amount 0
ZeroAmount(c) == c.op \in PositionOps /\ c.arg = 0 /\ c.who = c.key

\* C10 as stated: deposit, mint, repay and withdraw with amount 0 fail with
\* InvalidAmount in every state, whatever the pause flag, and change nothing.
ZeroAmountInvalid ==
    [][ZeroAmount(last') =>
          /\ last'.err = "InvalidAmount"
          /\ UNCHANGED <<protocol, vaults, escrow, issued>>]_vars

\* C10, amended: with amount 0, deposit and repay fail with InvalidAmount in
\* every state; mint and withdraw fail with InvalidAmount when the protocol
\* is not paused and with ProtocolPaused when it is; nothing changes.
ZeroAmountRejected ==
    [][ZeroAmount(last') =>
          /\ last'.err =
                 IF protocol.is_paused
                    /\ last'.op \in {"mint_gusd", "withdraw_collateral"}
                 THEN "ProtocolPaused" ELSE "InvalidAmount"
          /\ last'.reqs = 0
          /\ UNCHANGED <<protocol, vaults, escrow, issued>>]_vars

\* a deposit of 0 rejected while paused, into a vault that holds collateral
ZeroDepositWhilePaused ==
    /\ last.op = "deposit_collateral"
    /\ last.arg = 0
    /\ last.err = "InvalidAmount"
    /\ protocol.is_paused
    /\ vaults[last.key].collateral_amount > 0

\* an instruction on vault c.key called by the owner of that vault
ByOwner(c, op) == c.op = op /\ c.who = c.key

\* C11: a repay of a positive amount by the owner is never rejected, also
\* when more is offered than is owed: it burns min(amount, debt_amount),
\* decrements the vault's debt_amount and the protocol's total_debt by that
\* quantity and leaves collateral, price and every other vault unchanged.
RepayCappedAtDebt ==
    [][(ByOwner(last', "repay_gusd") /\ last'.arg > 0) =>
          LET k == last'.key
              m == Min(last'.arg, vaults[k].debt_amount)
          IN  /\ last'.err = "Ok"
              /\ issued - issued' = m
              /\ vaults' = [vaults EXCEPT ![k].debt_amount = @ - m]
              /\ protocol' = [protocol EXCEPT !.total_debt = @ - m]
              /\ escrow' = escrow]_vars

\* a repay that offered more than the positive debt of the vault
RepayOfferedMoreThanOwed ==
    /\ Accepted(last, "repay_gusd")
    /\ last.r1 > 0
    /\ last.arg > last.r1
    /\ vaults[last.key].debt_amount = 0
    /\ vaults[last.key].collateral_amount > 0

\* the step completes the pair first(a), second(a): both accepted, on the
\* same vault, with the same amount, one directly after the other
Pair(c, d, first, second) ==
    /\ Accepted(c, first)
    /\ Accepted(d, second)
    /\ c.key = d.key
    /\ c.arg = d.arg

\* C12 as stated: repay(a) followed by mint(a), and mint(a) followed by
\* repay(a), return the vault's debt_amount and the protocol's total_debt to
\* their values before the pair, for every positive amount a.  (The value
\* before the pair is the value between the two plus what the repay burned,
\* last.r1, or minus what the mint issued.)
RepayMintInverse ==
    [][/\ Pair(last, last', "repay_gusd", "mint_gusd") =>
              LET k == last'.key
              IN  /\ vaults'[k].debt_amount =
                         vaults[k].debt_amount + last.r1
                  /\ protocol'.total_debt = protocol.total_debt + last.r1
       /\ Pair(last, last', "mint_gusd", "repay_gusd") =>
              LET k == last'.key
              IN  /\ vaults'[k].debt_amount =
                         vaults[k].debt_amount - last.arg
                  /\ protocol'.total_debt =
                         protocol.total_debt - last.arg]_vars

\* C12, amended: repay(a) followed by mint(a), both accepted, returns
\* debt_amount and total_debt to their values before the pair when a is at
\* most the debt before the pair (the repay burned a, not less); mint(a)
\* followed by repay(a), both accepted, does so for every positive a.
RepayMintInverseUpToDebt ==
    [][/\ (/\ Pair(last, last', "repay_gusd", "mint_gusd")
           /\ last.r1 = last.arg) =>
              LET k == last'.key
              IN  /\ vaults'[k].debt_amount =
                         vaults[k].debt_amount + last.r1
                  /\ protocol'.total_debt = protocol.total_debt + last.r1
       /\ Pair(last, last', "mint_gusd", "repay_gusd") =>
              LET k == last'.key
              IN  /\ vaults'[k].debt_amount =
                         vaults[k].debt_amount - last.arg
                  /\ protocol'.total_debt =
                         protocol.total_debt - last.arg]_vars

\* between the two halves of a pair: a repay of a, at most the debt, has
\* been accepted, debt remains, and mint(a) on the same vault is accepted
\* in this state
RepaidThenMintable ==
    /\ Accepted(last, "repay_gusd")
    /\ last.arg > 0
    /\ last.r1 = last.arg
    /\ vaults[last.key].debt_amount > 0
    /\ mint_gusd(protocol, vaults[last.key], last.arg).err = "Ok"

\* a withdraw of a positive amount by the owner while the protocol is not
\* paused
OpenWithdraw(c) ==
    ByOwner(c, "withdraw_collateral") /\ c.arg > 0 /\ ~protocol.is_paused

\* the rejections C13 names: more than the vault holds, and a remainder
\* worth less than the collateral required for the existing debt
WithdrawRejections(c) ==
    LET v == vaults[c.key]
        value == calculate_usd_value(v.collateral_amount - c.arg,
                                     protocol.gor_price_usd, GOR_DECIMALS)
        required == required_collateral(v.debt_amount)
    IN  /\ c.arg > v.collateral_amount => c.err = "InsufficientCollateral"
        /\ (/\ c.arg <= v.collateral_amount
            /\ v.debt_amount > 0
            /\ value # None
            /\ required # None
            /\ value < required) => c.err = "WouldUndercollateralize"

\* C13 as stated: after every accepted withdraw from a vault with debt,
\* value(remaining) * BPS_DENOMINATOR >= debt * MIN_COLLATERAL_RATIO_BPS
\* exactly (written with the quotient rounded up, which is the same
\* comparison); a withdraw that would break the requirement fails with
\* WouldUndercollateralize, one of more than the vault holds with
\* InsufficientCollateral.
WithdrawKeepsExactRatio ==
    [][OpenWithdraw(last') =>
          LET k == last'.key
          IN  /\ WithdrawRejections(last')
              /\ (last'.err = "Ok" /\ vaults'[k].debt_amount > 0) =>
                     calculate_usd_value(vaults'[k].collateral_amount,
                                         protocol'.gor_price_usd,
                                         GOR_DECIMALS) >=
                         (vaults'[k].debt_amount * MIN_COLLATERAL_RATIO_BPS
                              + (BPS_DENOMINATOR - 1)) \div BPS_DENOMINATOR
    ]_vars

\* C13, amended: after every accepted withdraw from a vault with debt, the
\* value of the remaining collateral is at least the required collateral
\* rounded down, floor(debt * MIN_COLLATERAL_RATIO_BPS / BPS_DENOMINATOR);
\* the rejections are as stated.
WithdrawKeepsFloorRatio ==
    [][OpenWithdraw(last') =>
          LET k == last'.key
          IN  /\ WithdrawRejections(last')
              /\ (last'.err = "Ok" /\ vaults'[k].debt_amount > 0) =>
                     calculate_usd_value(vaults'[k].collateral_amount,
                                         protocol'.gor_price_usd,
                                         GOR_DECIMALS) >=
                         (vaults'[k].debt_amount * MIN_COLLATERAL_RATIO_BPS)
                             \div BPS_DENOMINATOR
    ]_vars

\* an accepted withdraw that leaves the vault exactly at the rounded-down
\* requirement and short of the exact ratio
WithdrawAtRoundedRequirement ==
    /\ Accepted(last, "withdraw_collateral")
    /\ vaults[last.key].debt_amount > 0
    /\ VaultValue(last.key) =
           (vaults[last.key].debt_amount * MIN_COLLATERAL_RATIO_BPS)
               \div BPS_DENOMINATOR
    /\ (vaults[last.key].debt_amount * MIN_COLLATERAL_RATIO_BPS)
           % BPS_DENOMINATOR # 0

\* the example of C14: a vault with debt_amount 1 and no collateral cannot
\* be closed, and can be closed after repay(1)
CloseAfterRepayExample ==
    LET v == [owner |-> 1, collateral_amount |-> 0, debt_amount |-> 1]
        p == [protocol EXCEPT !.total_debt = 1]
        r == repay_gusd(p, v, 1)
    IN  /\ close_vault(v, 0).err = "VaultNotEmpty"
        /\ r.err = "Ok"
        /\ close_vault(r.vault, 0).err = "Ok"
        /\ close_vault(r.vault, 0).vault = NoVault

\* C14: close_vault by the owner succeeds and deletes the vault account
\* exactly when collateral_amount = 0 and debt_amount = 0; otherwise it
\* fails with VaultNotEmpty and the vault keeps its balances.
CloseOnlyWhenEmpty ==
    [][ByOwner(last', "close_vault") =>
          LET k == last'.key
              v == vaults[k]
          IN  /\ IF v.collateral_amount = 0 /\ v.debt_amount = 0
                 THEN last'.err = "Ok" /\ vaults'[k] = NoVault
                 ELSE last'.err = "VaultNotEmpty" /\ vaults'[k] = v
              /\ \A j \in Keys \ {k} : vaults'[j] = vaults[j]
              /\ protocol' = protocol
              /\ CloseAfterRepayExample]_vars

\* a close by the owner refused for a vault that owes
CloseRefusedForDebt ==
    /\ ByOwner(last, "close_vault")
    /\ last.err = "VaultNotEmpty"
    /\ vaults[last.key].debt_amount > 0

\* floor(usd_value(collateral, price) * BPS_DENOMINATOR / debt_amount) of a
\* vault with debt
RatioBps(p, v) ==
    WideMulDivRem(calculate_usd_value(v.collateral_amount, p.gor_price_usd,
                                      GOR_DECIMALS),
                  BPS_DENOMINATOR, v.debt_amount).q

\* the boundary case of C15: at price 1000000 a vault with debt 5 and
\* collateral worth 6 has ratio_bps exactly 12000 and is not liquidatable;
\* with collateral worth 5 (ratio_bps 10000) it is
ThresholdExample ==
    LET p  == [protocol EXCEPT !.gor_price_usd = 1000000,
                               !.is_paused = FALSE,
                               !.total_collateral = 6000, !.total_debt = 5]
        at == [owner |-> 1, collateral_amount |-> 6000, debt_amount |-> 5]
        lo == [owner |-> 1, collateral_amount |-> 5999, debt_amount |-> 5]
    IN  /\ RatioBps(p, at) = 12000
        /\ liquidate(p, at).err = "VaultNotLiquidatable"
        /\ RatioBps(p, lo) = 10000
        /\ liquidate(p, lo).err = "Ok"

\* C15: liquidate (on a protocol that is not paused) fails with
\* NoDebtToLiquidate when the vault has no debt and with VaultNotLiquidatable
\* whenever ratio_bps >= LIQUIDATION_THRESHOLD_BPS, also when it is exactly
\* at the threshold; no accepted liquidation is on a vault at or above the
\* threshold.
LiquidationOnlyBelowThreshold ==
    [][last'.op = "liquidate" =>
          LET v == vaults[last'.key]
              value == calculate_usd_value(v.collateral_amount,
                                           protocol.gor_price_usd,
                                           GOR_DECIMALS)
          IN  /\ (~protocol.is_paused /\ v.debt_amount = 0)
                     => last'.err = "NoDebtToLiquidate"
              /\ (/\ ~protocol.is_paused
                  /\ v.debt_amount > 0
                  /\ value # None
                  /\ RatioBps(protocol, v) >= LIQUIDATION_THRESHOLD_BPS)
                     => last'.err = "VaultNotLiquidatable"
              /\ last'.err = "Ok"
                     => /\ v.debt_amount > 0
                        /\ RatioBps(protocol, v) < LIQUIDATION_THRESHOLD_BPS
              /\ ThresholdExample]_vars

\* a liquidation refused for a vault with debt that is above the threshold
\* and below the minimum collateral ratio
LiquidationRefusedAboveThreshold ==
    /\ last.op = "liquidate"
    /\ last.err = "VaultNotLiquidatable"
    /\ vaults[last.key].debt_amount > 0
    /\ RatioBps(protocol, vaults[last.key]) >= LIQUIDATION_THRESHOLD_BPS
    /\ RatioBps(protocol, vaults[last.key]) < MIN_COLLATERAL_RATIO_BPS

AdminOps ==
    {"update_price", "pause_protocol", "unpause_protocol", "transfer_admin"}

\* C16: update_price, pause, unpause and transfer_admin are accepted only
\* from the signer equal to ProtocolState.admin; any other signer gets
\* Unauthorized and nothing changes.  transfer_admin refuses the null key
\* and leaves the admin as it was; an accepted transfer_admin(B) makes B the
\* admin, and in the step after a transfer from A to another key B the
\* calls of A get Unauthorized and the calls of B do not.
AdminOnly ==
    [][last'.op \in AdminOps =>
          /\ last'.who # protocol.admin
                 => /\ last'.err = "Unauthorized"
                    /\ UNCHANGED <<protocol, vaults, escrow, issued>>
          /\ last'.who = protocol.admin => last'.err # "Unauthorized"
          /\ (last'.op = "transfer_admin" /\ last'.arg = NullKey)
                 => /\ Rejected(last')
                    /\ protocol'.admin = protocol.admin
          /\ Accepted(last', "transfer_admin")
                 => protocol'.admin = last'.arg
          /\ (Accepted(last, "transfer_admin") /\ last.arg # last.who)
                 => /\ last'.who = last.who => last'.err = "Unauthorized"
                    /\ last'.who = last.arg => last'.err # "Unauthorized"
    ]_vars

\* the admin role has just been transferred from one key to another
AdminTransferredToOther ==
    /\ Accepted(last, "transfer_admin")
    /\ last.arg # last.who
    /\ protocol.admin = last.arg
    /\ ~AdminConstraint(protocol, last.who)

ExampleStep(D, M) ==
    (protocol.gor_price_usd = BigOf(1000000) /\ ~protocol.is_paused) =>
        LET k == last'.key
        IN  /\ (/\ last'.op = "deposit_collateral"
                /\ last'.arg = D
                /\ protocol.total_collateral = <<>>
                /\ protocol.total_debt = <<>>
                /\ vaults[k].collateral_amount = <<>>
                /\ vaults[k].debt_amount = <<>>)
                   => /\ last'.err = "Ok"
                      /\ vaults'[k].collateral_amount = D
                      /\ vaults'[k].debt_amount = <<>>
            /\ (/\ last'.op = "mint_gusd"
                /\ last'.arg = M
                /\ protocol.total_collateral = D
                /\ protocol.total_debt = <<>>
                /\ vaults[k].collateral_amount = D
                /\ vaults[k].debt_amount = <<>>)
                   => /\ last'.err = "Ok"
                      /\ vaults'[k].collateral_amount = D
                      /\ vaults'[k].debt_amount = M

\* C18 as stated: at price 1000000, deposit(10_000_000_000) into an empty
\* vault followed by mint(6_000_000_000) succeeds and leaves debt_amount =
\* 6_000_000_000.
ExampleOfTenUnits ==
    [][ExampleStep(BigMul(BigOf(10), BigOf(Pow10(GOR_DECIMALS))),
                   BigMul(BigOf(6000), BigOf(Pow10(GUSD_DECIMALS))))]_vars

\* C18, amended: at price 1000000, deposit(10_000_000_000_000) (10000 units
\* of collateral, worth 10000 USD) into an empty vault followed by
\* mint(6_000_000_000) succeeds and leaves debt_amount = 6_000_000_000.
ExampleOfTenThousandUnits ==
    [][ExampleStep(BigMul(BigOf(10000), BigOf(Pow10(GOR_DECIMALS))),
                   BigMul(BigOf(6000), BigOf(Pow10(GUSD_DECIMALS))))]_vars

\* the vault after deposit(10_000_000_000_000) and mint(6_000_000_000) at
\* price 1000000, with the ratio 16666 reported by the mint
ExampleMinted ==
    /\ Accepted(last, "mint_gusd")
    /\ protocol.gor_price_usd = BigOf(1000000)
    /\ vaults[last.key].collateral_amount = <<0, 0, 0, 10>>
    /\ vaults[last.key].debt_amount = <<0, 0, 60>>
    /\ last.r2 = BigOf(16666)

\* vault c.key has debt above least and ratio_bps below the liquidation
\* threshold, and c is a mint or a withdraw of a positive amount by its
\* owner while the protocol is not paused
OnLiquidatable(c, least) ==
    /\ c.op \in {"mint_gusd", "withdraw_collateral"}
    /\ c.who = c.key
    /\ c.arg > 0
    /\ ~protocol.is_paused
    /\ vaults[c.key].debt_amount > least
    /\ VaultValue(c.key) # None
    /\ RatioBps(protocol, vaults[c.key]) < LIQUIDATION_THRESHOLD_BPS

\* the instruction fails its ratio check: a mint with InsufficientCollateral
\* (MathOverflow when the new debt or its required collateral cannot be
\* computed), a withdraw with WouldUndercollateralize (InsufficientCollateral
\* when more is asked than the vault holds)
FailsRatioCheck(c) ==
    /\ c.op = "mint_gusd" =>
           c.err \in {"InsufficientCollateral", "MathOverflow"}
    /\ c.op = "withdraw_collateral" =>
           c.err = IF c.arg > vaults[c.key].collateral_amount
                   THEN "InsufficientCollateral"
                   ELSE "WouldUndercollateralize"

\* C19 as stated: on a vault with debt_amount > 0 and ratio_bps below the
\* liquidation threshold, every mint and every withdraw of a positive amount
\* fails its ratio check.
NoMintOrWithdrawWhenLiquidatable ==
    [][OnLiquidatable(last', 0) =>
          /\ FailsRatioCheck(last')
          /\ UNCHANGED <<protocol, vaults>>]_vars

\* C19, amended: the same for a vault with debt_amount > 1 (with debt 1 the
\* required collateral floor(1 * 15000 / 10000) is 1, and collateral worth
\* 1 is below the threshold and yet covers it).
NoMintOrWithdrawWhenLiquidatableAboveOne ==
    [][OnLiquidatable(last', 1) =>
          /\ FailsRatioCheck(last')
          /\ UNCHANGED <<protocol, vaults>>]_vars

\* a withdraw refused by the ratio check on a vault that a price drop has
\* made liquidatable
WithdrawRefusedWhenLiquidatable ==
    /\ last.op = "withdraw_collateral"
    /\ last.err = "WouldUndercollateralize"
    /\ vaults[last.key].debt_amount > 1
    /\ RatioBps(protocol, vaults[last.key]) < LIQUIDATION_THRESHOLD_BPS
    /\ liquidate(protocol, vaults[last.key]).err = "Ok"

OwnerOps == PositionOps \cup {"close_vault"}

\* C20: deposit, mint, repay, withdraw and close are accepted only from the
\* owner of the vault they name; a step that changes the collateral_amount
\* or debt_amount of a vault and is not called by its owner is a liquidate;
\* and every instruction leaves the vaults other than its target, and the
\* lamports held for them, unchanged.
VaultIsolation ==
    [][/\ (last'.op \in OwnerOps /\ last'.err = "Ok") =>
              last'.who = vaults[last'.key].owner
       /\ \A k \in Keys :
              (/\ \/ vaults'[k].collateral_amount # vaults[k].collateral_amount
                  \/ vaults'[k].debt_amount # vaults[k].debt_amount
               /\ last'.who # vaults[k].owner) =>
                  last'.op = "liquidate"
       /\ \A k \in Keys :
              k # last'.key =>
                  /\ vaults'[k] = vaults[k]
                  /\ escrow'[k] = escrow[k]]_vars

\* a withdraw from someone else's funded vault, refused, by a caller who has
\* a vault of their own
StrangerRefused ==
    /\ last.op = "withdraw_collateral"
    /\ last.arg > 0
    /\ last.who # last.key
    /\ last.err # "Ok"
    /\ VaultExists(last.who)
    /\ vaults[last.key].collateral_amount >= last.arg
    /\ vaults[last.key].debt_amount = 0

\* floor(a * b / c) as an exact natural, by long multiplication and division
ExactMulDiv(a, b, c) == BigDiv(BigMul(a, BigOf(b)), BigOf(c))

BigMin(x, y) == IF BigLE(x, y) THEN x ELSE y

\* the numbers of a liquidation of vault v at the price of p, as C21 gives
\* them: value, ratio_bps, repay and seize
Liquidation(p, v) ==
    LET bonus == BPS_DENOMINATOR + LIQUIDATION_PENALTY_BPS
        value == ExactMulDiv(BigOf(v.collateral_amount), p.gor_price_usd,
                             Pow10(GOR_DECIMALS))
        repay == BigMin(BigOf(v.debt_amount),
                        ExactMulDiv(value, BPS_DENOMINATOR, bonus))
    IN  [value |-> value,
         ratio |-> ExactMulDiv(value, BPS_DENOMINATOR, v.debt_amount),
         repay |-> repay,
         seize |-> ExactMulDiv(ExactMulDiv(repay, bonus, BPS_DENOMINATOR),
                               Pow10(GOR_DECIMALS), p.gor_price_usd),
         covered |-> BigLE(BigMul(BigOf(v.debt_amount), BigOf(bonus)),
                           BigMul(value, BigOf(BPS_DENOMINATOR)))]

\* liquidate reaches the computation of the repaid amount: not paused, a
\* debt, a collateral value within u64 and a ratio below the threshold
Eligible(p, v) ==
    /\ ~p.is_paused
    /\ v.debt_amount > 0
    /\ BigLE(Liquidation(p, v).value, BigOf(U64_MAX))
    /\ ~BigLE(BigOf(LIQUIDATION_THRESHOLD_BPS), Liquidation(p, v).ratio)

\* C21: a successful liquidation repays min(debt, floor(value * 10000 /
\* 11000)) and seizes floor(floor(repay * 11000 / 10000) * 10^9 / price);
\* the vault's debt and collateral and the protocol totals decrease by
\* exactly these; it is rejected with LiquidationNotProfitable exactly when
\* that repay is 0; and the debt is cleared iff value * 10000 >= debt * 11000.
LiquidationFormula ==
    [][last'.op = "liquidate" =>
          LET k == last'.key
              v == vaults[k]
              L == Liquidation(protocol, v)
          IN  /\ last'.err = "Ok" =>
                     /\ Eligible(protocol, v)
                     /\ BigOf(v.debt_amount - vaults'[k].debt_amount)
                            = L.repay
                     /\ BigOf(v.collateral_amount
                                - vaults'[k].collateral_amount) = L.seize
                     /\ BigOf(protocol.total_debt - protocol'.total_debt)
                            = L.repay
                     /\ BigOf(protocol.total_collateral
                                - protocol'.total_collateral) = L.seize
                     /\ BigOf(last'.r1) = L.repay
                     /\ BigOf(last'.r2) = L.seize
                     /\ (vaults'[k].debt_amount = 0) <=> L.covered
              /\ Eligible(protocol, v) =>
                     ((last'.err = "LiquidationNotProfitable")
                          <=> (L.repay = <<>>))
              /\ last'.err = "LiquidationNotProfitable" =>
                     Eligible(protocol, v)]_vars

\* a liquidation that repaid part of the debt: the collateral did not cover
\* the debt and the penalty
PartialLiquidation ==
    /\ Accepted(last, "liquidate")
    /\ last.r1 > 0
    /\ last.r2 > 0
    /\ vaults[last.key].debt_amount > 0
    /\ vaults[last.key].collateral_amount > 0

\* liquidate passes its eligibility and profitability checks
Profitable(p, v) == Eligible(p, v) /\ Liquidation(p, v).repay # <<>>

\* C22: a liquidation that has passed the eligibility and profitability
\* checks never computes a seized amount above the vault's collateral, and
\* never fails with MathOverflow at that check (nor at any other).
SanityCheckUnreachable ==
    [][(last'.op = "liquidate" /\ Profitable(protocol, vaults[last'.key])) =>
          /\ BigLE(Liquidation(protocol, vaults[last'.key]).seize,
                   BigOf(vaults[last'.key].collateral_amount))
          /\ last'.r2 <= vaults[last'.key].collateral_amount
          /\ last'.err = "Ok"]_vars

\* a liquidation that seized less than the vault held by the rounding of
\* the value alone: the whole value was taken
SeizedWholeValue ==
    /\ Accepted(last, "liquidate")
    /\ last.r2 > 0
    /\ vaults[last.key].collateral_amount > 0
    /\ VaultValue(last.key) = 0

\* C23: every successful liquidation seizes collateral whose USD value at the
\* current price is at least repay * (BPS_DENOMINATOR +
\* LIQUIDATION_PENALTY_BPS) / BPS_DENOMINATOR, and never seizes zero.
LiquidatorPaidWithPenalty ==
    [][Accepted(last', "liquidate") =>
          /\ BigLE(BigMul(BigOf(last'.r1),
                          BigOf(BPS_DENOMINATOR + LIQUIDATION_PENALTY_BPS)),
                   BigMul(ExactMulDiv(BigOf(last'.r2),
                                      protocol.gor_price_usd,
                                      Pow10(GOR_DECIMALS)),
                          BigOf(BPS_DENOMINATOR)))
          /\ last'.r2 > 0]_vars

\* a reason of the validation steps of mint_gusd(amount) on vault v: paused,
\* zero amount, overflow of new_debt, of the collateral value or of the
\* required collateral, or a collateral value below the requirement
MintValidationFails(p, v, amount) ==
    LET new_debt == checked_add(v.debt_amount, amount)
        value == calculate_usd_value(v.collateral_amount, p.gor_price_usd,
                                     GOR_DECIMALS)
    IN  \/ p.is_paused
        \/ amount = 0
        \/ new_debt = None
        \/ value = None
        \/ required_collateral(new_debt) = None
        \/ value < required_collateral(new_debt)

\* C24: a mint is rejected only for a reason of its validation steps; the
\* ratio computed for the event never fails a mint that passed the
\* collateral check.
MintFailsOnlyInValidation ==
    [][(ByOwner(last', "mint_gusd") /\ Rejected(last')) =>
          MintValidationFails(protocol, vaults[last'.key], last'.arg)]_vars

\* decimals of the amounts valued: whole units, GUSD and GOR
ValuedDecimals == {0, GUSD_DECIMALS, GOR_DECIMALS}

\* C25: usd_value(amount, price, decimals) is exactly
\* floor(amount * price / 10^decimals) when that quotient is at most
\* u64::MAX, and fails (MathOverflow) exactly when it is larger.
UsdValueExact ==
    \A k \in Keys, decimals \in ValuedDecimals :
        VaultExists(k) =>
            LET exact == ExactMulDiv(BigOf(vaults[k].collateral_amount),
                                     protocol.gor_price_usd, Pow10(decimals))
                value == calculate_usd_value(vaults[k].collateral_amount,
                                             protocol.gor_price_usd, decimals)
            IN  IF BigLE(exact, BigOf(U64_MAX))
                THEN value # None /\ BigOf(value) = exact
                ELSE value = None

\* a health query that failed because the value of the collateral, rounded
\* down, is above u64::MAX
ValueAboveU64 ==
    /\ last.op = "get_vault_health"
    /\ last.err = "MathOverflow"
    /\ vaults[last.key].collateral_amount > 0
    /\ VaultValue(last.key) = None

\* a position instruction on the vault of key k, from the accounts st, with
\* the write-back of a transaction: st is unchanged when it fails
Apply(st, c) ==
    LET p == st.protocol
        v == st.vaults[c.key]
        r == CASE c.op = "deposit_collateral" ->
                      deposit_collateral(p, v, c.arg)
               [] c.op = "mint_gusd" -> mint_gusd(p, v, c.arg)
               [] c.op = "repay_gusd" -> repay_gusd(p, v, c.arg)
               [] c.op = "withdraw_collateral" ->
                      withdraw_collateral(p, v, c.arg)
               [] c.op = "liquidate" -> liquidate(p, v)
    IN  [protocol |-> Persist(r, p, r.protocol),
         vaults |-> [st.vaults EXCEPT ![c.key] = Persist(r, @, r.vault)],
         err |-> r.err]

\* the position instructions tried on the vault of key k
Tried(k) ==
    [op : {"deposit_collateral"}, key : {k}, arg : PairCollateralAmounts]
        \cup [op : {"withdraw_collateral"}, key : {k},
              arg : PairCollateralAmounts \ {U64_MAX}]
        \cup [op : {"mint_gusd", "repay_gusd"}, key : {k},
              arg : PairStableAmounts]
        \cup [op : {"liquidate"}, key : {k}, arg : {0}]

\* a then b and b then a end in the same accounts, each with the same
\* outcome in both orders
Commute(st, a, b) ==
    LET sa  == Apply(st, a)
        sab == Apply(sa, b)
        sb  == Apply(st, b)
        sba == Apply(sb, a)
    IN  /\ sab.protocol = sba.protocol
        /\ sab.vaults = sba.vaults
        /\ sa.err = sba.err
        /\ sb.err = sab.err

Deposited(c) == IF c.op = "deposit_collateral" THEN c.arg ELSE 0

Minted(c) == IF c.op = "mint_gusd" THEN c.arg ELSE 0

\* the totals have room for what a and b deposit and mint
TotalsFit(p, a, b) ==
    /\ checked_add(p.total_collateral, Deposited(a)) # None
    /\ checked_add(checked_add(p.total_collateral, Deposited(a)),
                   Deposited(b)) # None
    /\ checked_add(p.total_debt, Minted(a)) # None
    /\ checked_add(checked_add(p.total_debt, Minted(a)), Minted(b)) # None

Accounts == [protocol |-> protocol, vaults |-> vaults]

\* C26 as stated: two position instructions on different vaults have the
\* same outcomes and the same final accounts in either order.
DifferentVaultsCommute ==
    (protocol.initialized /\ VaultExists(1) /\ VaultExists(2)) =>
        \A a \in Tried(1), b \in Tried(2) : Commute(Accounts, a, b)

\* C26, amended: the same, when total_collateral with the amounts deposited
\* and total_debt with the amounts minted stay within u64.
DifferentVaultsCommuteWithinTotals ==
    (protocol.initialized /\ VaultExists(1) /\ VaultExists(2)) =>
        \A a \in Tried(1), b \in Tried(2) :
            TotalsFit(protocol, a, b) => Commute(Accounts, a, b)

\* both vaults hold collateral and debt, and the last instruction, on one
\* of them, was accepted
TwoOpenPositions ==
    /\ \A k \in Keys : vaults[k].debt_amount > 0
    /\ \A k \in Keys : vaults[k].collateral_amount > 0
    /\ last.op \in PositionOps \cup {"liquidate"}
    /\ last.err = "Ok"

\* C27: the stored price of an initialized protocol is strictly positive;
\* initialize and update_price reject price 0 with InvalidPrice and no other
\* instruction writes the price, so liquidate never divides by zero.
PriceStaysPositive ==
    [][/\ protocol'.initialized => protocol'.gor_price_usd > 0
       /\ (last'.op = "initialize" /\ last'.arg = 0) =>
              last'.err = "InvalidPrice"
       /\ (/\ last'.op = "update_price"
           /\ last'.arg = 0
           /\ AdminConstraint(protocol, last'.who)) =>
              last'.err = "InvalidPrice"
       /\ protocol'.gor_price_usd # protocol.gor_price_usd =>
              /\ last'.op \in {"initialize", "update_price"}
              /\ last'.err = "Ok"
              /\ protocol'.gor_price_usd = last'.arg
       /\ last'.op = "liquidate" => protocol.gor_price_usd > 0]_vars

\* the admin's update to price 0, refused
ZeroPriceRefused ==
    /\ last.op = "update_price"
    /\ last.arg = 0
    /\ last.who = protocol.admin
    /\ last.err = "InvalidPrice"
    /\ protocol.gor_price_usd > 0

\* C28: the net collateral the program has asked the ledger to move into the
\* escrow of each vault equals the vault's collateral_amount, and the net
\* GUSD it has asked the ledger to issue equals protocol.total_debt; so no
\* withdrawal or seizure asks for more than the escrow received.
BooksMirrorLedger ==
    /\ \A k \in Keys : escrow[k] = vaults[k].collateral_amount
    /\ issued = protocol.total_debt
    /\ (last.op \in {"withdraw_collateral", "liquidate"}
            /\ last.err = "Ok" /\ last.key \in Keys) =>
           escrow[last.key] >= 0

\* a liquidation has burned debt and moved collateral out of an escrow that
\* still holds the rest
SeizureOutOfEscrow ==
    /\ Accepted(last, "liquidate")
    /\ last.r1 > 0
    /\ last.r2 > 0
    /\ escrow[last.key] > 0
    /\ issued > 0

\* liquidate, when not paused, evaluates the ratio of vault v: a debt and a
\* collateral value within u64
EvaluatesRatio(p, v) ==
    /\ v.debt_amount > 0
    /\ BigLE(Liquidation(p, v).value, BigOf(U64_MAX))

\* C29: the health query succeeds and reports is_liquidatable exactly when
\* an unpaused liquidate passes its NoDebtToLiquidate and
\* VaultNotLiquidatable checks; and whenever liquidate evaluates the ratio,
\* the health query succeeds and reports that ratio.
HealthAgreesWithLiquidate ==
    [][last'.op = "get_vault_health" =>
          LET v == vaults[last'.key]
          IN  /\ (last'.err = "Ok" /\ last'.r2 = 1)
                     <=> Eligible(Unpaused, v)
              /\ EvaluatesRatio(Unpaused, v) =>
                     /\ last'.err = "Ok"
                     /\ BigOf(last'.r1) = Liquidation(Unpaused, v).ratio]_vars


=============================================================================
